---- MODULE Spec2Model ----
(***************************************************************************)
(* PaperlessLinkService: the document-filter query compiler                *)
(* (buildDocumentFilterQuery / buildCustomFieldConditions) and the facet   *)
(* engines (GetFieldValues, GetValueCounts, GetBuiltinFilterValues) that   *)
(* splice the compiled WHERE clause into their statements.                 *)
(*                                                                         *)
(* Go strings are sequences of one-character strings.  A decoded JSON      *)
(* value (Go interface{}) is a record [t, n, s, a]:                        *)
(*   t = "null" | "num" | "str" | "arr" | "obj"                            *)
(*   n   the number of a "num"                                             *)
(*   s   the characters of a "str"; the keys of an "obj"                   *)
(*   a   the elements of an "arr"; the values of an "obj" (a[i] is the     *)
(*       value of key s[i]); for a "str", what json.Unmarshal makes of     *)
(*       its characters: <<v>> when they are the JSON text of v, <<>>      *)
(*       when they are no JSON text at all.                                *)
(* SQL text is a sequence of tokens; a token is a record                   *)
(* [k, f, col, ph, lit, pg]: k the kind, f the custom field id printed     *)
(* with %d, col the column name, ph the placeholders in the order they     *)
(* are written (i for $i, 0 for ?), lit the client values printed into     *)
(* the text between quotes, pg whether the Postgres form is written.       *)
(***************************************************************************)
EXTENDS Integers, Sequences, FiniteSets, TLC

VARIABLES
    engine,      \* s.config.DBEngine
    docs,        \* documents_document (with documents_document_tags)
    insts,       \* documents_customfieldinstance, one row per (document, field)
    call,        \* the operation in progress and its arguments
    pc,          \* position of the operation
    loc,         \* local variables of the operation
    ret,         \* what the operation returned
    custom_views,          \* the rows of custom_views; the id of a row is its index
    tag_group_memberships, \* the rows <<tag_group_id, tag_id>> of tag_group_memberships
    tag_descriptions,      \* the rows of tag_descriptions; the id of a row is its index
    reqs                   \* the requests on the record stores that are under way

\* the record stores (custom views, tag groups, tag descriptions)
stores == <<custom_views, tag_group_memberships, tag_descriptions, reqs>>

vars == <<engine, docs, insts, call, pc, loc, ret, stores>>

\* the record stores are empty and no request on them is under way
NoStores ==
    /\ custom_views = <<>>
    /\ tag_group_memberships = {}
    /\ tag_descriptions = <<>>
    /\ reqs = <<>>

(***************************** Go and JSON values **************************)

JNull == [t |-> "null", n |-> 0, s |-> <<>>, a |-> <<>>]
JNum(n) == [t |-> "num", n |-> n, s |-> <<>>, a |-> <<>>]
\* a string whose characters are not JSON text
JStr(chars) == [t |-> "str", n |-> 0, s |-> chars, a |-> <<>>]
\* a string whose characters are the JSON text of v
JText(chars, v) == [t |-> "str", n |-> 0, s |-> chars, a |-> <<v>>]
JArr(elems) == [t |-> "arr", n |-> 0, s |-> <<>>, a |-> elems]
JObj(keys, vals) == [t |-> "obj", n |-> 0, s |-> keys, a |-> vals]

\* m[key] of a decoded JSON object (map[string]interface{}): nil when absent
MapGet(obj, key) ==
    IF obj.t = "obj" /\ \E i \in 1..Len(obj.s) : obj.s[i] = key
    THEN obj.a[CHOOSE i \in 1..Len(obj.s) :
                 obj.s[i] = key /\ \A j \in (i+1)..Len(obj.s) : obj.s[j] # key]
    ELSE JNull

\* json.Unmarshal([]byte(text), &v) with v interface{}: [err, v]
UnmarshalAny(text) ==
    IF text.a = <<>> THEN [err |-> TRUE, v |-> JNull]
    ELSE [err |-> FALSE, v |-> text.a[1]]

\* json.Unmarshal into []map[string]interface{}: fails on bad syntax and on
\* anything that is not null or an array of objects and nulls
UnmarshalRules(text) ==
    LET r == UnmarshalAny(text) IN
    IF r.err THEN [err |-> TRUE, v |-> <<>>]
    ELSE IF r.v.t = "null" THEN [err |-> FALSE, v |-> <<>>]
    ELSE IF r.v.t = "arr" /\ \A i \in 1..Len(r.v.a) : r.v.a[i].t \in {"obj", "null"}
         THEN [err |-> FALSE, v |-> r.v.a]
    ELSE [err |-> TRUE, v |-> <<>>]

\* json.Unmarshal into map[string]interface{}
UnmarshalMap(text) ==
    LET r == UnmarshalAny(text) IN
    IF r.err \/ r.v.t \notin {"obj", "null"} THEN [err |-> TRUE, v |-> JNull]
    ELSE [err |-> FALSE, v |-> r.v]

DigitChars == <<"0", "1", "2", "3", "4", "5", "6", "7", "8", "9">>

RECURSIVE Itoa(_)
Itoa(n) == IF n < 10 THEN <<DigitChars[n + 1]>>
           ELSE Itoa(n \div 10) \o <<DigitChars[(n % 10) + 1]>>

\* fmt.Sprintf("%v", val) of a decoded JSON scalar
Sprintv(val) ==
    CASE val.t = "str" -> val.s
      [] val.t = "num" -> Itoa(val.n)
      [] OTHER -> <<"<", "n", "i", "l", ">">>

\* the string constants the compiler compares against
sAND == <<"A", "N", "D">>
sOR == <<"O", "R">>
sExists == <<"e", "x", "i", "s", "t", "s">>
sIsNull == <<"i", "s", "n", "u", "l", "l">>
sIn == <<"i", "n">>
sRange == <<"r", "a", "n", "g", "e">>
sGte == <<"g", "t", "e">>
sLte == <<"l", "t", "e">>

\* a Go string passed as a statement argument
GoStr(chars) == JStr(chars)


(***************************** custom field metadata ***********************)

\* getValueColumnName
getValueColumnName(dataType) ==
    CASE dataType = "string" -> "value_text"
      [] dataType = "url" -> "value_url"
      [] dataType = "date" -> "value_date"
      [] dataType = "boolean" -> "value_bool"
      [] dataType = "integer" -> "value_int"
      [] dataType = "float" -> "value_float"
      [] dataType = "monetary" -> "value_monetary"
      [] dataType = "documentlink" -> "value_document_ids"
      [] dataType = "select" -> "value_select"
      [] dataType = "longtext" -> "value_long_text"
      [] OTHER -> "value_text"

SelectOption(id, label) == JObj(<<"id", "label">>, <<JStr(id), JStr(label)>>)

\* extra_data of the select field: two options with ids x, y and labels F, L
SelectExtraData ==
    JText(<<"{", "}">>,
          JObj(<<"select_options">>,
               <<JArr(<<SelectOption(<<"x">>, <<"F">>),
                        SelectOption(<<"y">>, <<"L">>)>>)>>))

NoExtraData == JStr(<<>>)

\* documents_customfield: the rows of the externally owned field table
documents_customfield ==
    (1 :> [name |-> <<"N">>, data_type |-> "string", extra_data |-> NoExtraData]) @@
    (2 :> [name |-> <<"S">>, data_type |-> "select", extra_data |-> SelectExtraData]) @@
    (3 :> [name |-> <<"D">>, data_type |-> "date", extra_data |-> NoExtraData])

FieldIds == DOMAIN documents_customfield

\* a field id no row of documents_customfield has
MissingFieldId == 1 + CHOOSE i \in FieldIds : \A j \in FieldIds : j <= i

\* pairs <<key, value>> of a Go map built by assignments in order; the
\* last assignment to a key wins
MapLookup(pairs, key) ==
    LET hits == {i \in 1..Len(pairs) : pairs[i][1] = key} IN
    IF hits = {} THEN [found |-> FALSE, v |-> <<>>]
    ELSE [found |-> TRUE,
          v |-> pairs[CHOOSE i \in hits : \A j \in hits : j <= i][2]]

\* the loop over extra_data.select_options shared by GetFieldValues,
\* GetValueCounts (id -> label) and the "in" operator (label -> id):
\* the well-formed options <<id, label>> in list order
SelectOptions(dataType, extraDataJSON) ==
    IF dataType = "select" /\ Len(extraDataJSON.s) > 0
    THEN LET m == UnmarshalMap(extraDataJSON) IN
         IF m.err THEN <<>>
         ELSE LET so == MapGet(m.v, "select_options") IN
              IF so.t # "arr" THEN <<>>
              ELSE LET good(o) == /\ o.t = "obj"
                                  /\ MapGet(o, "id").t = "str"
                                  /\ MapGet(o, "label").t = "str"
                   IN  [i \in 1..Len(SelectSeq(so.a, good)) |->
                          <<MapGet(SelectSeq(so.a, good)[i], "id").s,
                            MapGet(SelectSeq(so.a, good)[i], "label").s>>]
    ELSE <<>>

Swap(pairs) == [i \in 1..Len(pairs) |-> <<pairs[i][2], pairs[i][1]>>]

(***************************** SQL text ************************************)

\* a piece of SQL text: a keyword or one condition. f and col are the field
\* id and the column written into it, ph its placeholders, lit the operands
\* written into it between quotes ('%s'), pg whether '%s'::date is written
Tok(k) == [k |-> k, f |-> 0, col |-> "", ph |-> <<>>, lit |-> <<>>, pg |-> FALSE]
LP == Tok("(")
RP == Tok(")")
AND == Tok("AND")
OR == Tok("OR")
WHERE == Tok("WHERE")

\* "$%d" with Postgres, "?" otherwise
Placeholder(usePostgres, argIndex) == IF usePostgres THEN argIndex ELSE 0

\* d.<col> = $n   (also d.created >= $n::date, d.created <= $n::date and
\* EXISTS (SELECT 1 FROM documents_document_tags ... dt.tag_id = $n))
BuiltinCond(kind, col, usePostgres, argIndex) ==
    <<[Tok(kind) EXCEPT !.col = col, !.ph = <<Placeholder(usePostgres, argIndex)>>]>>

\* strings.Join(conds, sep) where every cond is a token sequence
RECURSIVE Join(_, _)
Join(conds, sep) ==
    IF Len(conds) = 0 THEN <<>>
    ELSE IF Len(conds) = 1 THEN conds[1]
    ELSE conds[1] \o <<sep>> \o Join(Tail(conds), sep)

\* fmt.Sprintf("(%s)", cond)
Paren(cond) == <<LP>> \o cond \o <<RP>>


(***************************** buildCustomFieldConditions ******************)

\* what one call returns: conditions, args, the next argument index; panic
\* when the call ended in a run-time panic instead of returning
Built(conditions, args, argIndex) ==
    [conditions |-> conditions, args |-> args, argIndex |-> argIndex,
     panic |-> FALSE]

Panicked(argIndex) ==
    [conditions |-> <<>>, args |-> <<>>, argIndex |-> argIndex, panic |-> TRUE]

\* the isnull operator had it taken the fallback for every field
IsNullDataTypeFallback(fieldID) == "string"

\* QueryRow("SELECT data_type FROM documents_customfield WHERE id = ..."):
\* the isnull operator falls back to "string" when the row is missing
IsNullDataType(fieldID) ==
    IF fieldID \in FieldIds THEN documents_customfield[fieldID].data_type
    ELSE "string"

\* QueryRow("SELECT data_type, extra_data ..."): the in operator goes on
\* with dataType = "" when the row is missing
InDataType(fieldID) ==
    IF fieldID \in FieldIds THEN documents_customfield[fieldID].data_type
    ELSE ""

InExtraData(fieldID) ==
    IF fieldID \in FieldIds THEN documents_customfield[fieldID].extra_data
    ELSE NoExtraData

\* an operand of an in leaf had the label never been mapped
InOperandAsIs(dataType, labelToOptionIDMap, val) == Sprintv(val)

\* one operand of an in leaf: valStr, the label mapped to its option id
\* for a select field
InOperand(dataType, labelToOptionIDMap, val) ==
    LET valStr == Sprintv(val)
        hit == MapLookup(labelToOptionIDMap, valStr)
    IN  IF dataType = "select" /\ hit.found THEN hit.v ELSE valStr

\* case "in" had it printed the operands into the text between quotes
InLeafPrintingOperands(fieldID, values, argIndex, usePostgres) ==
    Built(<< <<[Tok("cf_in") EXCEPT !.f = fieldID,
                  !.col = getValueColumnName(InDataType(fieldID)),
                  !.lit = [i \in 1..Len(values) |-> Sprintv(values[i])]]>> >>,
          <<>>, argIndex)

\* case "in": one placeholder and one argument per operand
InLeaf(fieldID, values, argIndex, usePostgres) ==
    LET dataType == InDataType(fieldID)
        labelToOptionIDMap == Swap(SelectOptions(dataType, InExtraData(fieldID)))
        valueColumn == getValueColumnName(dataType)
        n == Len(values)
    IN  Built(<< <<[Tok("cf_in") EXCEPT !.f = fieldID, !.col = valueColumn,
                      !.ph = [i \in 1..n |->
                                Placeholder(usePostgres, argIndex + i - 1)]]>> >>,
              [i \in 1..n |-> GoStr(InOperand(dataType, labelToOptionIDMap, values[i]))],
              argIndex + n)

\* the switch on the operator of a leaf [fieldId, operator, value]
LeafCondition(fieldID, operator, value, argIndex, usePostgres) ==
    CASE operator = sExists ->
           Built(<< <<[Tok("cf_exists") EXCEPT !.f = fieldID]>> >>, <<>>, argIndex)
      [] operator = sIsNull ->
           Built(<< <<[Tok("cf_isnull") EXCEPT !.f = fieldID,
                        !.col = getValueColumnName(IsNullDataType(fieldID))]>> >>,
                 <<>>, argIndex)
      [] operator = sIn ->
           IF value.t = "arr" /\ Len(value.a) > 0
           THEN InLeaf(fieldID, value.a, argIndex, usePostgres)
           ELSE Built(<<>>, <<>>, argIndex)
      [] operator = sRange ->
           IF value.t = "arr" /\ Len(value.a) >= 2
           THEN Built(<< <<[Tok("cf_range") EXCEPT !.f = fieldID, !.col = "value_date",
                             !.lit = <<Sprintv(value.a[1]), Sprintv(value.a[2])>>,
                             !.pg = usePostgres]>> >>,
                      <<>>, argIndex)
           ELSE Built(<<>>, <<>>, argIndex)
      [] operator = sGte ->
           Built(<< <<[Tok("cf_gte") EXCEPT !.f = fieldID, !.col = "value_date",
                        !.lit = <<Sprintv(value)>>, !.pg = usePostgres]>> >>,
                 <<>>, argIndex)
      [] operator = sLte ->
           Built(<< <<[Tok("cf_lte") EXCEPT !.f = fieldID, !.col = "value_date",
                        !.lit = <<Sprintv(value)>>, !.pg = usePostgres]>> >>,
                 <<>>, argIndex)
      [] OTHER -> Built(<<>>, <<>>, argIndex)

\* the single-query branch had it not skipped the field being queried
LeafOfAnyField(queryArray, excludeFieldID, argIndex, usePostgres) ==
    IF Len(queryArray) >= 3 /\ queryArray[1].t = "num" /\ queryArray[2].t = "str"
    THEN LeafCondition(queryArray[1].n, queryArray[2].s, queryArray[3], argIndex,
                       usePostgres)
    ELSE Built(<<>>, <<>>, argIndex)

\* the single-query branch: [fieldId, "operator", value]
Leaf(queryArray, excludeFieldID, argIndex, usePostgres) ==
    IF Len(queryArray) >= 3
    THEN IF queryArray[1].t # "num" THEN Built(<<>>, <<>>, argIndex)
         ELSE IF queryArray[1].n = excludeFieldID THEN Built(<<>>, <<>>, argIndex)
         ELSE IF queryArray[2].t # "str" THEN Built(<<>>, <<>>, argIndex)
         ELSE LeafCondition(queryArray[1].n, queryArray[2].s, queryArray[3],
                            argIndex, usePostgres)
    ELSE Built(<<>>, <<>>, argIndex)

\* the OR branch wraps every condition a child returned in parentheses
OrWrap(subConditions) == [i \in 1..Len(subConditions) |-> Paren(subConditions[i])]

\* the OR branch joins the wrapped conditions and wraps the group again
OrCombine(orConditions) ==
    IF Len(orConditions) > 0 THEN << Paren(Join(orConditions, OR)) >> ELSE <<>>

\* conditions = append(conditions, subConditions...), args = append(args,
\* subArgs...), argIndex = newArgIndex; a panic in the callee ends the caller
AndAppend(acc, sub) ==
    IF sub.panic THEN Panicked(acc.argIndex)
    ELSE Built(acc.conditions \o sub.conditions, acc.args \o sub.args, sub.argIndex)

\* the body of the OR branch's loop: a child without conditions changes
\* nothing, not even the argument index
OrAppend(acc, sub) ==
    IF sub.panic THEN Panicked(acc.argIndex)
    ELSE IF Len(sub.conditions) > 0
    THEN Built(acc.conditions \o OrWrap(sub.conditions), acc.args \o sub.args,
               sub.argIndex)
    ELSE acc

\* the end of the OR branch, r being (orConditions, args, argIndex)
OrReturn(r) ==
    IF r.panic THEN r ELSE Built(OrCombine(r.conditions), r.args, r.argIndex)

RECURSIVE buildCustomFieldConditions(_, _, _, _)
RECURSIVE AndLoop(_, _, _, _, _)
RECURSIVE OrLoop(_, _, _, _, _)

\* for _, subQuery := range subQueries of the AND branch; acc is
\* (conditions, args, argIndex) before subQueries[i]
AndLoop(subQueries, i, acc, excludeFieldID, usePostgres) ==
    IF i > Len(subQueries) \/ acc.panic THEN acc
    ELSE AndLoop(subQueries, i + 1,
                 AndAppend(acc, buildCustomFieldConditions(subQueries[i], excludeFieldID,
                                                           acc.argIndex, usePostgres)),
                 excludeFieldID, usePostgres)

\* for _, subQuery := range subQueries of the OR branch; acc.conditions is
\* orConditions
OrLoop(subQueries, i, acc, excludeFieldID, usePostgres) ==
    IF i > Len(subQueries) \/ acc.panic THEN acc
    ELSE OrLoop(subQueries, i + 1,
                OrAppend(acc, buildCustomFieldConditions(subQueries[i], excludeFieldID,
                                                         acc.argIndex, usePostgres)),
                excludeFieldID, usePostgres)

\* queryArray[1] of an operator node: an index out of range panics
SubQueries(queryArray) ==
    IF Len(queryArray) < 2 THEN [panic |-> TRUE, ok |-> FALSE, v |-> <<>>]
    ELSE [panic |-> FALSE, ok |-> queryArray[2].t = "arr", v |-> queryArray[2].a]

buildCustomFieldConditions(query, excludeFieldID, startArgIndex, usePostgres) ==
    IF query.t # "arr" THEN Built(<<>>, <<>>, startArgIndex)
    ELSE LET queryArray == query.a IN
         IF Len(queryArray) > 0 /\ queryArray[1].t = "str"
            /\ queryArray[1].s \in {sAND, sOR}
         THEN LET subs == SubQueries(queryArray) IN
              IF subs.panic THEN Panicked(startArgIndex)
              ELSE IF ~subs.ok THEN Built(<<>>, <<>>, startArgIndex)
              ELSE IF queryArray[1].s = sAND
              THEN AndLoop(subs.v, 1, Built(<<>>, <<>>, startArgIndex),
                           excludeFieldID, usePostgres)
              ELSE OrReturn(OrLoop(subs.v, 1, Built(<<>>, <<>>, startArgIndex),
                                   excludeFieldID, usePostgres))
         ELSE Leaf(queryArray, excludeFieldID, startArgIndex, usePostgres)


(***************************** buildDocumentFilterQuery ********************)

\* filter rule type constants
FILTER_CORRESPONDENT == 1
FILTER_DOCUMENT_TYPE == 2
FILTER_HAS_TAGS_ANY == 3
FILTER_STORAGE_PATH == 4
FILTER_OWNER_ANY == 5
FILTER_CREATED_AFTER == 6
FILTER_CREATED_BEFORE == 7
FILTER_ASN == 8
FILTER_IS_IN_INBOX == 9
FILTER_CUSTOM_FIELDS_QUERY == 42

UsePostgres(dbEngine) == dbEngine \in {"postgresql", "postgres"}

\* if len(cfConditions) > 0: the conditions and arguments are appended and
\* the argument index advances
CustomFieldRule(c, argIndex) ==
    IF c.panic \/ Len(c.conditions) > 0 THEN c ELSE Built(<<>>, <<>>, argIndex)

\* the body of the loop over filterRules for one rule: what it appends to
\* conditions and args, and the argument index after it
RuleConditions(rule, excludeFieldID, argIndex, usePostgres) ==
    LET ruleType == MapGet(rule, "rule_type")
        value == MapGet(rule, "value")
        one(kind, col) == Built(<<BuiltinCond(kind, col, usePostgres, argIndex)>>,
                                <<GoStr(value.s)>>, argIndex + 1)
    IN  IF ruleType.t # "num" THEN Built(<<>>, <<>>, argIndex)
        ELSE IF value.t # "str" THEN Built(<<>>, <<>>, argIndex)
        ELSE CASE ruleType.n = FILTER_CORRESPONDENT -> one("doc_eq", "correspondent_id")
               [] ruleType.n = FILTER_DOCUMENT_TYPE -> one("doc_eq", "document_type_id")
               [] ruleType.n = FILTER_HAS_TAGS_ANY -> one("doc_tag", "tag_id")
               [] ruleType.n = FILTER_STORAGE_PATH -> one("doc_eq", "storage_path_id")
               [] ruleType.n = FILTER_OWNER_ANY -> one("doc_eq", "owner_id")
               [] ruleType.n = FILTER_CREATED_AFTER -> one("doc_ge", "created")
               [] ruleType.n = FILTER_CREATED_BEFORE -> one("doc_le", "created")
               [] ruleType.n = FILTER_ASN -> one("doc_eq", "archive_serial_number")
               [] ruleType.n = FILTER_IS_IN_INBOX ->
                    Built(<< <<[Tok("doc_inbox") EXCEPT !.col = "is_in_inbox"]>> >>,
                          <<>>, argIndex)
               [] ruleType.n = FILTER_CUSTOM_FIELDS_QUERY ->
                    LET q == UnmarshalAny(value) IN
                    IF q.err THEN Built(<<>>, <<>>, argIndex)
                    ELSE CustomFieldRule(
                           buildCustomFieldConditions(q.v, excludeFieldID, argIndex,
                                                      usePostgres), argIndex)
               [] OTHER -> Built(<<>>, <<>>, argIndex)

RECURSIVE RuleLoop(_, _, _, _, _)
\* for _, rule := range filterRules
RuleLoop(filterRules, i, acc, excludeFieldID, usePostgres) ==
    IF i > Len(filterRules) \/ acc.panic THEN acc
    ELSE RuleLoop(filterRules, i + 1,
                  AndAppend(acc, RuleConditions(filterRules[i], excludeFieldID,
                                                acc.argIndex, usePostgres)),
                  excludeFieldID, usePostgres)

\* what buildDocumentFilterQuery returns: (whereClause, args, err), or a panic
Filter(where, args) == [where |-> where, args |-> args, err |-> FALSE, panic |-> FALSE]
NoFilter == Filter(<<>>, <<>>)
FilterError == [where |-> <<>>, args |-> <<>>, err |-> TRUE, panic |-> FALSE]
FilterPanic == [where |-> <<>>, args |-> <<>>, err |-> FALSE, panic |-> TRUE]

\* "WHERE " + strings.Join(conditions, " AND ")
WhereClause(conditions) == <<WHERE>> \o Join(conditions, AND)

\* the end of buildDocumentFilterQuery, r being (conditions, args, argIndex)
FilterReturn(r) ==
    IF r.panic THEN FilterPanic
    ELSE IF Len(r.conditions) = 0 THEN NoFilter
    ELSE Filter(WhereClause(r.conditions), r.args)

\* buildDocumentFilterQuery after the rules are parsed
FilterQueryOf(filterRules, excludeFieldID, usePostgres) ==
    IF Len(filterRules) = 0 THEN NoFilter
    ELSE FilterReturn(RuleLoop(filterRules, 1, Built(<<>>, <<>>, 1), excludeFieldID,
                               usePostgres))

buildDocumentFilterQuery(filterRulesJSON, excludeFieldID, dbEngine) ==
    IF filterRulesJSON.s = <<>> THEN NoFilter
    ELSE LET parsed == UnmarshalRules(filterRulesJSON) IN
         IF parsed.err THEN FilterError
         ELSE FilterQueryOf(parsed.v, excludeFieldID, UsePostgres(dbEngine))


(***************************** the database ********************************)

\* ASCII code of the characters the model's strings are made of
UpperChars == <<"A", "B", "C", "D", "E", "F", "G", "H", "I", "J", "K", "L", "M",
                "N", "O", "P", "Q", "R", "S", "T", "U", "V", "W", "X", "Y", "Z">>
LowerChars == <<"a", "b", "c", "d", "e", "f", "g", "h", "i", "j", "k", "l", "m",
                "n", "o", "p", "q", "r", "s", "t", "u", "v", "w", "x", "y", "z">>

IndexIn(seq, c) == CHOOSE i \in 1..Len(seq) : seq[i] = c
IsIn(seq, c) == \E i \in 1..Len(seq) : seq[i] = c

Code(c) ==
    IF IsIn(UpperChars, c) THEN 64 + IndexIn(UpperChars, c)
    ELSE IF IsIn(LowerChars, c) THEN 96 + IndexIn(LowerChars, c)
    ELSE IF IsIn(DigitChars, c) THEN 47 + IndexIn(DigitChars, c)
    ELSE CASE c = " " -> 32
           [] c = "$" -> 36
           [] c = "'" -> 39
           [] c = "(" -> 40
           [] c = ")" -> 41
           [] c = "," -> 44
           [] c = "-" -> 45
           [] c = ":" -> 58
           [] c = ";" -> 59
           [] c = "<" -> 60
           [] c = ">" -> 62
           [] c = "?" -> 63
           [] c = "[" -> 91
           [] c = "]" -> 93
           [] c = "_" -> 95
           [] c = "{" -> 123
           [] c = "|" -> 124
           [] c = "}" -> 125

\* a < b on Go strings, and on the text and date values SQL compares
RECURSIVE StrLess(_, _)
StrLess(a, b) ==
    IF Len(b) = 0 THEN FALSE
    ELSE IF Len(a) = 0 THEN TRUE
    ELSE IF Code(a[1]) < Code(b[1]) THEN TRUE
    ELSE IF Code(a[1]) > Code(b[1]) THEN FALSE
    ELSE StrLess(Tail(a), Tail(b))

StrLE(a, b) == a = b \/ StrLess(a, b)

\* a row of documents_customfieldinstance for (document, field): st is
\* "none" (no row), "live" (deleted_at IS NULL) or "deleted"; the value sits
\* in the column of the field's data type and is NULL when isnull
NoRow == [st |-> "none", isnull |-> TRUE, value |-> <<>>]
LiveRow(value) == [st |-> "live", isnull |-> FALSE, value |-> value]
NullRow == [st |-> "live", isnull |-> TRUE, value |-> <<>>]
DeletedRow(value) == [st |-> "deleted", isnull |-> FALSE, value |-> value]

\* the row of (d, f) in an instance table; ids outside the table have none
RowOf(table, d, f) == IF <<d, f>> \in DOMAIN table THEN table[<<d, f>>] ELSE NoRow

\* row.<col> IS NOT NULL
ColNotNull(row, f, col) ==
    /\ row.st # "none"
    /\ ~row.isnull
    /\ f \in FieldIds
    /\ col = getValueColumnName(documents_customfield[f].data_type)

\* a document row; 0 stands for NULL in the id columns
Doc(deleted, corr, inbox, tags) ==
    [deleted |-> deleted, correspondent_id |-> corr, document_type_id |-> 0,
     storage_path_id |-> 0, owner_id |-> 0, archive_serial_number |-> 0,
     is_in_inbox |-> inbox, created |-> <<"2">>, tags |-> tags]

(***************************** running a statement *************************)

RECURSIVE NumberAt(_, _, _)
\* the number the digits of chars from index i on spell after the value n
NumberAt(chars, i, n) ==
    IF i <= Len(chars) /\ IsIn(DigitChars, chars[i])
    THEN NumberAt(chars, i + 1, n * 10 + IndexIn(DigitChars, chars[i]) - 1)
    ELSE [n |-> n, i |-> i]

RECURSIVE LitScan(_, _, _, _)
\* how the database reads the characters written between the quotes of
\* '%s': a quote among them ends the string literal, and a ? (or, with
\* Postgres, a $n) read outside a string literal is a placeholder
LitScan(chars, i, inQuote, pg) ==
    IF i > Len(chars) THEN <<>>
    ELSE IF chars[i] = "'" THEN LitScan(chars, i + 1, ~inQuote, pg)
    ELSE IF ~inQuote /\ ~pg /\ chars[i] = "?"
    THEN <<0>> \o LitScan(chars, i + 1, inQuote, pg)
    ELSE IF ~inQuote /\ pg /\ chars[i] = "$" /\ i < Len(chars)
            /\ IsIn(DigitChars, chars[i + 1])
    THEN LET num == NumberAt(chars, i + 1, 0) IN
         <<num.n>> \o LitScan(chars, num.i, inQuote, pg)
    ELSE LitScan(chars, i + 1, inQuote, pg)

RECURSIVE LitPlaceholders(_, _)
\* the placeholders read in the quoted operands of one condition
LitPlaceholders(lit, pg) ==
    IF Len(lit) = 0 THEN <<>>
    ELSE LitScan(lit[1], 1, TRUE, pg) \o LitPlaceholders(Tail(lit), pg)

\* the placeholders of a statement text in the order they are written
RECURSIVE Placeholders(_)
Placeholders(toks) ==
    IF Len(toks) = 0 THEN <<>>
    ELSE toks[1].ph \o LitPlaceholders(toks[1].lit, toks[1].pg)
         \o Placeholders(Tail(toks))

\* the number of placeholders written before token i
PhBefore(toks, i) == Len(Placeholders(SubSeq(toks, 1, i - 1)))

\* the driver accepts the arguments: every $i has an argument and every
\* argument a placeholder ($i may repeat); ? takes them in order
BindOk(toks, args) ==
    LET phs == Placeholders(toks) IN
    IF \E i \in 1..Len(phs) : phs[i] # 0
    THEN {phs[i] : i \in 1..Len(phs)} = 1..Len(args)
    ELSE Len(phs) = Len(args)

\* the argument bound to the j-th placeholder of token i
ArgOf(toks, args, i, j) ==
    IF toks[i].ph[j] # 0 THEN args[toks[i].ph[j]]
    ELSE args[PhBefore(toks, i) + j]

\* SQL comparison of a column with a bound text parameter
IdEquals(id, arg) == id # 0 /\ arg.t = "str" /\ Itoa(id) = arg.s

\* the truth of one condition for document d and, in a statement that joins
\* documents_customfieldinstance cfi, its row of field cf (0 when not joined)
Holds(toks, args, i, d, cf, dtab, itab) ==
    LET tk == toks[i]
        row == RowOf(itab, d, tk.f)
        arg(j) == ArgOf(toks, args, i, j)
        live == row.st = "live"
        date == ColNotNull(row, tk.f, "value_date")
    IN  CASE tk.k = "doc_eq" -> IdEquals(dtab[d][tk.col], arg(1))
          [] tk.k = "doc_tag" -> \E t \in dtab[d].tags : IdEquals(t, arg(1))
          [] tk.k = "doc_ge" -> StrLE(arg(1).s, dtab[d].created)
          [] tk.k = "doc_le" -> StrLE(dtab[d].created, arg(1).s)
          [] tk.k = "doc_inbox" -> dtab[d].is_in_inbox
          [] tk.k = "doc_live" -> ~dtab[d].deleted
          [] tk.k = "cf_exists" -> live
          [] tk.k = "cf_isnull" ->
               ~(live /\ ColNotNull(row, tk.f, tk.col) /\ row.value # <<>>)
          [] tk.k = "cf_in" ->
               /\ live
               /\ ColNotNull(row, tk.f, tk.col)
               /\ \E j \in 1..Len(tk.ph) : arg(j).t = "str" /\ arg(j).s = row.value
          [] tk.k = "cf_range" ->
               live /\ date /\ StrLE(tk.lit[1], row.value) /\ StrLE(row.value, tk.lit[2])
          [] tk.k = "cf_gte" -> live /\ date /\ StrLE(tk.lit[1], row.value)
          [] tk.k = "cf_lte" -> live /\ date /\ StrLE(row.value, tk.lit[1])
          \* cfi.field_id = $n AND cfi.deleted_at IS NULL AND cfi.<col> IS NOT NULL
          \* AND cfi.<col> != '' on the joined row
          [] tk.k = "cfi_value" ->
               LET r == RowOf(itab, d, cf) IN
               /\ arg(1).t = "num" /\ arg(1).n = cf
               /\ r.st = "live" /\ ColNotNull(r, cf, tk.col) /\ r.value # <<>>
          \* NOT EXISTS (SELECT 1 FROM documents_customfieldinstance cfi3 WHERE
          \* cfi3.document_id = d.id AND cfi3.field_id = $n AND cfi3.deleted_at IS NULL
          \* AND cfi3.<col> IS NOT NULL AND cfi3.<col> != '')
          [] tk.k = "no_value" ->
               LET r == RowOf(itab, d, arg(1).n) IN
               ~(arg(1).t = "num" /\ r.st = "live"
                 /\ ColNotNull(r, arg(1).n, tk.col) /\ r.value # <<>>)
          [] OTHER -> FALSE

RECURSIVE EvalOr(_, _, _)
RECURSIVE EvalAnd(_, _, _)
RECURSIVE EvalOrRest(_, _, _, _)
RECURSIVE EvalAndRest(_, _, _, _)
RECURSIVE EvalPrimary(_, _, _)

\* SQL's reading of a boolean expression: parentheses, then AND, then OR.
\* truth[i] is the truth of token i; the result is [v, i]: the value and
\* the index after the expression
EvalPrimary(toks, truth, i) ==
    IF toks[i].k = "("
    THEN LET r == EvalOr(toks, truth, i + 1) IN [v |-> r.v, i |-> r.i + 1]
    ELSE [v |-> truth[i], i |-> i + 1]

EvalAndRest(toks, truth, acc, i) ==
    IF i <= Len(toks) /\ toks[i].k = "AND"
    THEN LET r == EvalPrimary(toks, truth, i + 1)
         IN  EvalAndRest(toks, truth, acc /\ r.v, r.i)
    ELSE [v |-> acc, i |-> i]

EvalAnd(toks, truth, i) ==
    LET r == EvalPrimary(toks, truth, i) IN EvalAndRest(toks, truth, r.v, r.i)

EvalOrRest(toks, truth, acc, i) ==
    IF i <= Len(toks) /\ toks[i].k = "OR"
    THEN LET r == EvalAnd(toks, truth, i + 1)
         IN  EvalOrRest(toks, truth, acc \/ r.v, r.i)
    ELSE [v |-> acc, i |-> i]

EvalOr(toks, truth, i) ==
    LET r == EvalAnd(toks, truth, i) IN EvalOrRest(toks, truth, r.v, r.i)

\* whether the WHERE clause toks (starting with the WHERE token) selects
\* document d joined with its instance row of field cf
Selects(toks, args, d, cf, dtab, itab) ==
    LET truth == [i \in 1..Len(toks) |->
                    IF toks[i].k \in {"WHERE", "AND", "OR", "(", ")"} THEN FALSE
                    ELSE Holds(toks, args, i, d, cf, dtab, itab)]
    IN  EvalOr(toks, truth, 2).v


(***************************** helpers of the facet engines ****************)

\* the separator test had it left the semicolon out
IsSeparatorCommaOrColon(r) == r = "," \/ r = ":"

\* the separator test parseValueList passes to strings.FieldsFunc
IsSeparator(r) == r = "," \/ r = ":" \/ r = ";"

RECURSIVE FieldsFrom(_, _)
\* strings.FieldsFunc: the maximal runs of non-separator characters; cur is
\* the run being read
FieldsFrom(rest, cur) ==
    IF Len(rest) = 0 THEN (IF Len(cur) > 0 THEN <<cur>> ELSE <<>>)
    ELSE IF IsSeparator(rest[1])
         THEN (IF Len(cur) > 0 THEN <<cur>> ELSE <<>>) \o FieldsFrom(Tail(rest), <<>>)
         ELSE FieldsFrom(Tail(rest), Append(cur, rest[1]))

parseValueList(value) == FieldsFrom(value, <<>>)

\* unicode.IsSpace on the characters of the model
IsSpace(c) == c \in {" ", "\t", "\n"}

RECURSIVE TrimLeft(_)
TrimLeft(str) ==
    IF Len(str) > 0 /\ IsSpace(str[1]) THEN TrimLeft(Tail(str)) ELSE str

RECURSIVE TrimRight(_)
TrimRight(str) ==
    IF Len(str) > 0 /\ IsSpace(str[Len(str)])
    THEN TrimRight(SubSeq(str, 1, Len(str) - 1)) ELSE str

\* strings.TrimSpace
TrimSpace(str) == TrimRight(TrimLeft(str))

\* the keys one raw value adds to valueDocumentMap: every part of
\* parseValueList, trimmed, unless empty
PartsOf(value) ==
    LET parts == parseValueList(value) IN
    {TrimSpace(parts[i]) : i \in 1..Len(parts)} \ {<<>>}

RECURSIVE HashFrom(_, _)
HashFrom(rest, hash) ==
    IF Len(rest) = 0 THEN hash ELSE HashFrom(Tail(rest), hash * 31 + Code(rest[1]))

\* generateID: "val-%d" of the base-31 hash of the characters
generateID(value) == <<"v", "a", "l", "-">> \o Itoa(HashFrom(value, 0))

ToLowerChar(c) ==
    IF IsIn(UpperChars, c) THEN LowerChars[IndexIn(UpperChars, c)] ELSE c

\* strings.ToLower
ToLower(str) == [i \in 1..Len(str) |-> ToLowerChar(str[i])]

\* compareLabels: -1, 0, 1
compareLabels(a, b, ignoreCase) ==
    LET x == IF ignoreCase THEN ToLower(a) ELSE a
        y == IF ignoreCase THEN ToLower(b) ELSE b
    IN  IF StrLess(x, y) THEN 0 - 1 ELSE IF StrLess(y, x) THEN 1 ELSE 0

sCount == <<"c", "o", "u", "n", "t">>
sLabel == <<"l", "a", "b", "e", "l">>
sAsc == <<"a", "s", "c">>
sDesc == <<"d", "e", "s", "c">>
sBlankId == <<"_", "_", "b", "l", "a", "n", "k", "_", "_">>
sBlankLabel == <<"(", "B", "l", "a", "n", "k", ")">>

Facet(id, label, count) == [id |-> id, label |-> label, count |-> count]

\* shouldSwap had the label tie-break of the count order followed sortOrder
shouldSwapTieFollowsOrder(x, y, sortBy, sortOrder, ignoreCase) ==
    IF sortBy = sCount
    THEN IF sortOrder = sAsc
         THEN \/ x.count > y.count
              \/ (x.count = y.count /\ compareLabels(x.label, y.label, ignoreCase) > 0)
         ELSE \/ x.count < y.count
              \/ (x.count = y.count /\ compareLabels(x.label, y.label, ignoreCase) < 0)
    ELSE LET labelComparison == compareLabels(x.label, y.label, ignoreCase) IN
         IF sortOrder = sAsc
         THEN labelComparison > 0 \/ (labelComparison = 0 /\ x.count < y.count)
         ELSE labelComparison < 0 \/ (labelComparison = 0 /\ x.count < y.count)

\* shouldSwap had the count tie-break of the label order been ascending
shouldSwapEqualLabelsAscending(x, y, sortBy, sortOrder, ignoreCase) ==
    IF sortBy = sCount
    THEN IF sortOrder = sAsc
         THEN \/ x.count > y.count
              \/ (x.count = y.count /\ compareLabels(x.label, y.label, ignoreCase) > 0)
         ELSE \/ x.count < y.count
              \/ (x.count = y.count /\ compareLabels(x.label, y.label, ignoreCase) > 0)
    ELSE LET labelComparison == compareLabels(x.label, y.label, ignoreCase) IN
         IF sortOrder = sAsc
         THEN labelComparison > 0 \/ (labelComparison = 0 /\ x.count > y.count)
         ELSE labelComparison < 0 \/ (labelComparison = 0 /\ x.count > y.count)

\* shouldSwap of sortValues for sorted[i] = x and sorted[j] = y, after the
\* defaults and ToLower are applied to sortBy and sortOrder
shouldSwap(x, y, sortBy, sortOrder, ignoreCase) ==
    IF sortBy = sCount
    THEN IF sortOrder = sAsc
         THEN \/ x.count > y.count
              \/ (x.count = y.count /\ compareLabels(x.label, y.label, ignoreCase) > 0)
         ELSE \/ x.count < y.count
              \/ (x.count = y.count /\ compareLabels(x.label, y.label, ignoreCase) > 0)
    ELSE LET labelComparison == compareLabels(x.label, y.label, ignoreCase) IN
         IF sortOrder = sAsc
         THEN labelComparison > 0 \/ (labelComparison = 0 /\ x.count < y.count)
         ELSE labelComparison < 0 \/ (labelComparison = 0 /\ x.count < y.count)

RECURSIVE SortLoop(_, _, _, _, _, _)
\* the two nested loops of sortValues, at indices i < j (1-based)
SortLoop(sorted, i, j, sortBy, sortOrder, ignoreCase) ==
    IF i >= Len(sorted) THEN sorted
    ELSE IF j > Len(sorted)
         THEN SortLoop(sorted, i + 1, i + 2, sortBy, sortOrder, ignoreCase)
    ELSE IF shouldSwap(sorted[i], sorted[j], sortBy, sortOrder, ignoreCase)
         THEN SortLoop([sorted EXCEPT ![i] = sorted[j], ![j] = sorted[i]],
                       i, j + 1, sortBy, sortOrder, ignoreCase)
         ELSE SortLoop(sorted, i, j + 1, sortBy, sortOrder, ignoreCase)

\* the default of sortBy in sortValues
DefaultSortBy(sortBy) == IF sortBy = <<>> THEN sCount ELSE sortBy

\* the default of sortOrder in sortValues
DefaultSortOrder(sortBy, sortOrder) ==
    IF sortOrder = <<>>
    THEN (IF DefaultSortBy(sortBy) = sCount THEN sDesc ELSE sAsc)
    ELSE sortOrder

sortValues(values, sortBy, sortOrder, ignoreCase) ==
    SortLoop(values, 1, 2, ToLower(DefaultSortBy(sortBy)),
             ToLower(DefaultSortOrder(sortBy, sortOrder)), ignoreCase)


(***************************** statements of the facet engines *************)

\* a statement: the tables it reads (from), its WHERE clause and arguments
Statement(from, where, args) == [from |-> from, where |-> where, args |-> args]
NoStatement == Statement("", <<>>, <<>>)

\* the value query of GetFieldValues and GetValueCounts: with a document
\* filter it joins documents_document d and appends its own conditions to
\* the filter's WHERE clause; the field id is bound last
ValueStatement(fieldID, valueColumn, docFilterWhere, docFilterArgs, usePostgres) ==
    IF docFilterWhere # <<>>
    THEN Statement("cfi_d",
                   docFilterWhere \o
                   <<AND,
                     [Tok("cfi_value") EXCEPT !.col = valueColumn,
                        !.ph = <<Placeholder(usePostgres, Len(docFilterArgs) + 1)>>],
                     AND, Tok("doc_live")>>,
                   docFilterArgs \o <<JNum(fieldID)>>)
    ELSE Statement("cfi",
                   <<WHERE, [Tok("cfi_value") EXCEPT !.col = valueColumn,
                               !.ph = <<Placeholder(usePostgres, 1)>>]>>,
                   <<JNum(fieldID)>>)

\* the blank-count query: COUNT(DISTINCT d.id) of the documents without a
\* non-empty live value of the field
BlankStatement(fieldID, valueColumn, docFilterWhere, docFilterArgs, usePostgres) ==
    IF docFilterWhere # <<>>
    THEN Statement("d",
                   docFilterWhere \o
                   <<AND, Tok("doc_live"), AND,
                     [Tok("no_value") EXCEPT !.col = valueColumn,
                        !.ph = <<Placeholder(usePostgres, Len(docFilterArgs) + 1)>>]>>,
                   docFilterArgs \o <<JNum(fieldID)>>)
    ELSE Statement("d",
                   <<WHERE, Tok("doc_live"), AND,
                     [Tok("no_value") EXCEPT !.col = valueColumn,
                        !.ph = <<Placeholder(usePostgres, 1)>>]>>,
                   <<JNum(fieldID)>>)

\* SELECT COUNT(DISTINCT id) FROM documents_document WHERE deleted_at IS NULL
TotalStatement == Statement("d", <<WHERE, Tok("doc_live")>>, <<>>)

\* the rows <<document, field>> a statement reads before its WHERE clause
Candidates(from, dtab, itab) ==
    IF from = "d" THEN {<<d, 0>> : d \in DOMAIN dtab}
    ELSE {k \in DOMAIN itab : itab[k].st # "none" /\ (from = "cfi" \/ k[1] \in DOMAIN dtab)}

\* s.db.Query / QueryRow: [err, rows], rows the selected <<document, field>>
Run(stmt, dtab, itab) ==
    IF ~BindOk(stmt.where, stmt.args) THEN [err |-> TRUE, rows |-> {}]
    ELSE [err |-> FALSE,
          rows |-> {k \in Candidates(stmt.from, dtab, itab) :
                      Selects(stmt.where, stmt.args, k[1], k[2], dtab, itab)}]

\* valueDocumentMap had every occurrence of a part been recorded rather
\* than the document it occurs in
ValueDocumentMapPerOccurrence(rows, itab) ==
    LET keys == UNION {PartsOf(itab[k].value) : k \in rows}
        occurrences(v, k) ==
            LET parts == parseValueList(itab[k].value) IN
            {<<k[1], i>> : i \in {j \in 1..Len(parts) : TrimSpace(parts[j]) = v}}
    IN  [v \in keys |-> UNION {occurrences(v, k) : k \in rows}]

\* valueDocumentMap after the loop over the rows of the value query: the
\* documents per trimmed part
ValueDocumentMap(rows, itab) ==
    LET keys == UNION {PartsOf(itab[k].value) : k \in rows} IN
    [v \in keys |-> {k[1] : k \in {r \in rows : v \in PartsOf(itab[r].value)}}]

\* the facet appended for one key of valueDocumentMap
ValueFacet(value, documentSet, dataType, selectOptionMap) ==
    IF dataType = "select"
    THEN LET hit == MapLookup(selectOptionMap, value) IN
         Facet(value, IF hit.found THEN hit.v ELSE value, Cardinality(documentSet))
    ELSE Facet(generateID(value), value, Cardinality(documentSet))

\* the orders in which "for value, documentSet := range valueDocumentMap"
\* may visit the keys: Go leaves the iteration order of a map unspecified
IterationOrders(keys) ==
    {o \in [1..Cardinality(keys) -> keys] : \A i, j \in DOMAIN o : o[i] = o[j] => i = j}

\* values after the conversion loop visiting the keys in this order
ValuesIn(order, vdm, dataType, selectOptionMap) ==
    [i \in 1..Len(order) |-> ValueFacet(order[i], vdm[order[i]], dataType, selectOptionMap)]

\* the blank/null option had it been appended whatever blankCount is
WithBlankWhenZero(values, blank) ==
    IF ~blank.err
    THEN Append(values, Facet(sBlankId, sBlankLabel, Cardinality(blank.rows)))
    ELSE values

\* the blank/null option appended when blankCount > 0 and the query worked
WithBlank(values, blank) ==
    IF ~blank.err /\ Cardinality(blank.rows) > 0
    THEN Append(values, Facet(sBlankId, sBlankLabel, Cardinality(blank.rows)))
    ELSE values


(***************************** GetFieldValues, GetValueCounts **************)

\* what an operation returns; err is "" for a nil error
Response(values, fieldName, total) ==
    [err |-> "", panic |-> FALSE, values |-> values, field_name |-> fieldName,
     total_documents |-> total]
Failure(err) ==
    [err |-> err, panic |-> FALSE, values |-> <<>>, field_name |-> <<>>,
     total_documents |-> 0]
Panic ==
    [err |-> "", panic |-> TRUE, values |-> <<>>, field_name |-> <<>>,
     total_documents |-> 0]
NoResponse == Failure("none")

\* the local variables of a facet operation the properties read
Locals(docFilter, valueQuery, blankQuery) ==
    [docFilter |-> docFilter, valueQuery |-> valueQuery, blankQuery |-> blankQuery]
NoLocals == Locals(NoFilter, NoStatement, NoStatement)

\* GetValueCounts falls back to the unfiltered query when the filter
\* cannot be built
FilterOrFallback(docFilter) == IF docFilter.err THEN NoFilter ELSE docFilter

\* GetValueCounts sets its own defaults before it calls sortValues
CountsSortBy(sortBy) == IF sortBy = <<>> THEN sCount ELSE sortBy
CountsSortOrder(sortOrder) == IF sortOrder = <<>> THEN sDesc ELSE sortOrder

\* the statements of a facet operation around a document filter
StatementsAround(fieldID, docFilter, dbEngine) ==
    LET valueColumn == getValueColumnName(documents_customfield[fieldID].data_type)
    IN  Locals(docFilter,
               ValueStatement(fieldID, valueColumn, docFilter.where, docFilter.args,
                              UsePostgres(dbEngine)),
               BlankStatement(fieldID, valueColumn, docFilter.where, docFilter.args,
                              UsePostgres(dbEngine)))

\* the statements GetValueCounts builds for a field that exists
GetValueCountsLocals(fieldID, filterRulesJSON, dbEngine) ==
    StatementsAround(fieldID,
                     FilterOrFallback(
                        buildDocumentFilterQuery(filterRulesJSON, fieldID, dbEngine)),
                     dbEngine)

\* values after the conversion loop, the blank option and the sort, one
\* list per iteration order of valueDocumentMap
SortedValues(vdm, blank, dataType, selectOptionMap, sortBy, sortOrder, ignoreCase) ==
    {sortValues(WithBlank(ValuesIn(o, vdm, dataType, selectOptionMap), blank),
                sortBy, sortOrder, ignoreCase) : o \in IterationOrders(DOMAIN vdm)}

\* the values a facet operation can return once its value query has
\* returned valueRows
FacetValues(fieldID, valueRows, blankQuery, sortBy, sortOrder, ignoreCase, dtab, itab) ==
    SortedValues(ValueDocumentMap(valueRows, itab), Run(blankQuery, dtab, itab),
                 documents_customfield[fieldID].data_type,
                 SelectOptions(documents_customfield[fieldID].data_type,
                               documents_customfield[fieldID].extra_data),
                 sortBy, sortOrder, ignoreCase)

\* GetValueCounts from its value query on
CountsOf(fieldID, valueResult, blankQuery, sortBy, sortOrder, ignoreCase, dtab, itab) ==
    IF valueResult.err THEN {Failure("failed to query field values")}
    ELSE {Response(v, <<>>, 0) :
            v \in FacetValues(fieldID, valueResult.rows, blankQuery, CountsSortBy(sortBy),
                              CountsSortOrder(sortOrder), ignoreCase, dtab, itab)}

\* GetValueCounts once its statements l are built
CountsAround(fieldID, l, sortBy, sortOrder, ignoreCase, dtab, itab) ==
    CountsOf(fieldID, Run(l.valueQuery, dtab, itab), l.blankQuery, sortBy, sortOrder,
             ignoreCase, dtab, itab)

\* GetValueCounts once buildDocumentFilterQuery has returned docFilter
CountsWithin(fieldID, docFilter, sortBy, sortOrder, ignoreCase, dbEngine, dtab, itab) ==
    IF docFilter.panic THEN {Panic}
    ELSE CountsAround(fieldID, StatementsAround(fieldID, FilterOrFallback(docFilter),
                                                dbEngine),
                      sortBy, sortOrder, ignoreCase, dtab, itab)

\* GetValueCounts had it returned the error of buildDocumentFilterQuery
GetValueCountsOrFilterError(fieldID, filterRulesJSON, sortBy, sortOrder, ignoreCase, dbEngine, dtab, itab) ==
    IF fieldID \notin FieldIds THEN {Failure("failed to get field info")}
    ELSE IF buildDocumentFilterQuery(filterRulesJSON, fieldID, dbEngine).err
    THEN {Failure("failed to build filter query")}
    ELSE CountsWithin(fieldID, buildDocumentFilterQuery(filterRulesJSON, fieldID, dbEngine),
                      sortBy, sortOrder, ignoreCase, dbEngine, dtab, itab)

\* every response GetValueCounts can give
GetValueCounts(fieldID, filterRulesJSON, sortBy, sortOrder, ignoreCase, dbEngine, dtab, itab) ==
    IF fieldID \notin FieldIds THEN {Failure("failed to get field info")}
    ELSE CountsWithin(fieldID, buildDocumentFilterQuery(filterRulesJSON, fieldID, dbEngine),
                      sortBy, sortOrder, ignoreCase, dbEngine, dtab, itab)

\* the statements GetFieldValues builds: it takes no filter
GetFieldValuesLocals(fieldID, dbEngine) == StatementsAround(fieldID, NoFilter, dbEngine)

\* GetFieldValues had its total counted every row of documents_document
ValuesOfCountingEveryRow(fieldID, valueResult, blankQuery, sortBy, sortOrder, ignoreCase, dtab, itab) ==
    IF valueResult.err THEN {Failure("failed to query field values")}
    ELSE {Response(v, documents_customfield[fieldID].name, Cardinality(DOMAIN dtab)) :
            v \in FacetValues(fieldID, valueResult.rows, blankQuery, sortBy, sortOrder,
                              ignoreCase, dtab, itab)}

\* GetFieldValues from its value query on
ValuesOf(fieldID, valueResult, blankQuery, sortBy, sortOrder, ignoreCase, dtab, itab) ==
    IF valueResult.err THEN {Failure("failed to query field values")}
    ELSE {Response(v, documents_customfield[fieldID].name,
                   Cardinality(Run(TotalStatement, dtab, itab).rows)) :
            v \in FacetValues(fieldID, valueResult.rows, blankQuery, sortBy, sortOrder,
                              ignoreCase, dtab, itab)}

\* GetFieldValues once its statements l are built
ValuesAround(fieldID, l, sortBy, sortOrder, ignoreCase, dtab, itab) ==
    ValuesOf(fieldID, Run(l.valueQuery, dtab, itab), l.blankQuery, sortBy, sortOrder,
             ignoreCase, dtab, itab)

\* GetFieldValues had it gone on without the field's row
GetFieldValuesWithoutField(fieldID, sortBy, sortOrder, ignoreCase, dbEngine, dtab, itab) ==
    IF fieldID \notin FieldIds
    THEN {Response(<<>>, <<>>, Cardinality(Run(TotalStatement, dtab, itab).rows))}
    ELSE ValuesAround(fieldID, GetFieldValuesLocals(fieldID, dbEngine), sortBy, sortOrder,
                      ignoreCase, dtab, itab)

\* every response GetFieldValues can give
GetFieldValues(fieldID, sortBy, sortOrder, ignoreCase, dbEngine, dtab, itab) ==
    IF fieldID \notin FieldIds THEN {Failure("custom field not found")}
    ELSE ValuesAround(fieldID, GetFieldValuesLocals(fieldID, dbEngine), sortBy, sortOrder,
                      ignoreCase, dtab, itab)

\* strings.Contains
Contains(str, substr) ==
    \E i \in 0..(Len(str) - Len(substr)) : SubSeq(str, i + 1, i + Len(substr)) = substr

\* the test of the loop over response.Values
LabelContains(value, query, ignoreCase) ==
    IF ignoreCase THEN Contains(ToLower(value.label), ToLower(query))
    ELSE Contains(value.label, query)

\* SearchFieldValues had it lower-cased label and query whatever ignoreCase
SearchFieldValuesFoldingCase(response, query, sortBy, sortOrder, ignoreCase) ==
    LET matches(value) == LabelContains(value, query, TRUE) IN
    IF response.err # "" THEN response
    ELSE Response(sortValues(SelectSeq(response.values, matches), sortBy, sortOrder,
                             ignoreCase), <<>>, 0)

\* SearchFieldValues once its call of GetFieldValues has returned response
SearchFieldValues(response, query, sortBy, sortOrder, ignoreCase) ==
    LET matches(value) == LabelContains(value, query, ignoreCase) IN
    IF response.err # "" THEN response
    ELSE Response(sortValues(SelectSeq(response.values, matches), sortBy, sortOrder,
                             ignoreCase), <<>>, 0)

\* the local variable of SearchFieldValues the properties read
SearchLocals(response) == [response |-> response]


(***************************** requests ************************************)

\* For a JSON text the model keeps whether it is empty and what it decodes
\* to; its characters are abbreviated.
EmptyText == JStr(<<>>)
EmptyArrayText == JText(<<"[", "]">>, JArr(<<>>))
\* "{" is no JSON text
BadSyntaxText == JStr(<<"{">>)
\* "[1]" is JSON but no array of rule objects
NotRulesText == JText(<<"[", "1", "]">>, JArr(<<JNum(1)>>))

Rule(ruleType, value) == JObj(<<"rule_type", "value">>, <<JNum(ruleType), value>>)
RulesText(rules) == JText(<<"[", "{", "}", "]">>, JArr(rules))
\* the value of a custom-field-query rule: the JSON text of a query
QueryText(query) == JText(<<"[", "]">>, query)
CustomRule(query) == Rule(FILTER_CUSTOM_FIELDS_QUERY, QueryText(query))

QLeaf(fieldID, operator, operand) == JArr(<<JNum(fieldID), JStr(operator), operand>>)
QNode(operator, children) == JArr(<<JStr(operator), JArr(children)>>)

NoCall ==
    [op |-> "none", fieldID |-> 0, filterRulesJSON |-> EmptyText, sortBy |-> <<>>,
     sortOrder |-> <<>>, ignoreCase |-> FALSE, filterType |-> "", query |-> JNull,
     startArgIndex |-> 0]

Engines == {"postgresql", "sqlite"}

(***************************** Spec: the custom-field facet engine **********)

\* how many places of the dataset writes may change
MaxChanges == 3

DocIds == {1, 2}

\* the rows the writers store for a field
StoredRows(f) ==
    IF f = 1
    THEN {LiveRow(<<"A", ",", "A", ",", "B">>), LiveRow(<<" ", "A">>), LiveRow(<<"a">>),
          LiveRow(<<>>), LiveRow(<<",">>), NullRow, DeletedRow(<<"A">>)}
    ELSE IF f = 2 THEN {LiveRow(<<"x">>), LiveRow(sBlankId)}
    ELSE {}

InitialDocs == [d \in DocIds |-> Doc(FALSE, 0, FALSE, {})]
InitialInsts == [k \in DocIds \X FieldIds |-> NoRow]

\* the places in which a dataset differs from the initial one
Changes(dtab, itab) ==
    Cardinality({k \in DOMAIN itab : itab[k] # NoRow})
    + Cardinality({d \in DOMAIN dtab : dtab[d] # InitialDocs[d]})

\* the filters a facet request carries
FacetFilters ==
    {EmptyText, EmptyArrayText, BadSyntaxText, NotRulesText,
     RulesText(<<CustomRule(QLeaf(2, sIn, JArr(<<JStr(<<"F">>)>>)))>>),
     RulesText(<<CustomRule(QLeaf(1, sExists, JNull))>>),
     RulesText(<<CustomRule(QNode(sOR, <<QLeaf(1, sIsNull, JNull),
                                          QLeaf(2, sIn, JArr(<<JStr(<<"x">>)>>))>>))>>)}

FacetFieldIds == {1, 2, MissingFieldId}

\* sortBy, sortOrder, ignoreCase of a facet request
SortChoices == {<< <<>>, <<>>, FALSE >>, << sLabel, sAsc, TRUE >>, << sLabel, <<>>, FALSE >>}

Init ==
    /\ engine \in Engines
    /\ docs = InitialDocs
    /\ insts = InitialInsts
    /\ call = NoCall
    /\ pc = "idle"
    /\ loc = NoLocals
    /\ ret = NoResponse
    /\ NoStores

\* another client of the database stores, clears or soft-deletes the
\* instance of field f on document d
WriteInstance ==
    /\ pc = "idle"
    /\ \E d \in DocIds, f \in FieldIds : \E row \in StoredRows(f) \cup {NoRow} :
         /\ insts' = [insts EXCEPT ![<<d, f>>] = row]
         /\ insts' # insts
         /\ Changes(docs, insts') <= MaxChanges
    /\ UNCHANGED <<stores, engine, docs, call, pc, loc, ret>>

\* another client soft-deletes document d
DeleteDocument ==
    /\ pc = "idle"
    /\ \E d \in DocIds :
         /\ ~docs[d].deleted
         /\ docs' = [docs EXCEPT ![d].deleted = TRUE]
         /\ Changes(docs', insts) <= MaxChanges
    /\ UNCHANGED <<stores, engine, insts, call, pc, loc, ret>>

CallGetValueCounts ==
    /\ pc = "idle"
    /\ \E f \in FacetFieldIds, text \in FacetFilters, srt \in SortChoices :
         /\ call' = [NoCall EXCEPT !.op = "GetValueCounts", !.fieldID = f,
                       !.filterRulesJSON = text, !.sortBy = srt[1],
                       !.sortOrder = srt[2], !.ignoreCase = srt[3]]
         /\ ret' \in GetValueCounts(f, text, srt[1], srt[2], srt[3], engine, docs, insts)
         /\ loc' = IF f \in FieldIds /\ ~ret'.panic
                   THEN GetValueCountsLocals(f, text, engine) ELSE NoLocals
    /\ pc' = "done"
    /\ UNCHANGED <<stores, engine, docs, insts>>

CallGetFieldValues ==
    /\ pc = "idle"
    /\ \E f \in FacetFieldIds, srt \in SortChoices :
         /\ call' = [NoCall EXCEPT !.op = "GetFieldValues", !.fieldID = f,
                       !.sortBy = srt[1], !.sortOrder = srt[2], !.ignoreCase = srt[3]]
         /\ ret' \in GetFieldValues(f, srt[1], srt[2], srt[3], engine, docs, insts)
         /\ loc' = IF f \in FieldIds THEN GetFieldValuesLocals(f, engine) ELSE NoLocals
    /\ pc' = "done"
    /\ UNCHANGED <<stores, engine, docs, insts>>

\* the query strings of a search request
SearchQueries == {<<>>, <<"a">>, <<"A">>, <<"l", "a">>}

CallSearchFieldValues ==
    /\ pc = "idle"
    /\ \E f \in FacetFieldIds, q \in SearchQueries, srt \in SortChoices :
         \E response \in GetFieldValues(f, srt[1], srt[2], srt[3], engine, docs, insts) :
            /\ call' = [NoCall EXCEPT !.op = "SearchFieldValues", !.fieldID = f,
                          !.query = JStr(q), !.sortBy = srt[1], !.sortOrder = srt[2],
                          !.ignoreCase = srt[3]]
            /\ loc' = SearchLocals(response)
            /\ ret' = SearchFieldValues(response, q, srt[1], srt[2], srt[3])
    /\ pc' = "done"
    /\ UNCHANGED <<stores, engine, docs, insts>>

\* the response is delivered; the service keeps nothing of the request
Return ==
    /\ pc = "done"
    /\ pc' = "idle"
    /\ call' = NoCall
    /\ loc' = NoLocals
    /\ ret' = NoResponse
    /\ UNCHANGED <<stores, engine, docs, insts>>

Next ==
    \/ WriteInstance
    \/ DeleteDocument
    \/ CallGetValueCounts
    \/ CallGetFieldValues
    \/ CallSearchFieldValues
    \/ Return

Spec == Init /\ [][Next]_vars


(***************************** CompileSpec: the filter compiler ************)

\* how many children the enumerated operator nodes have at most
MaxKids == 2

Strs(strings) == JArr([i \in 1..Len(strings) |-> JStr(strings[i])])

\* leaves the compiler has a condition for
E1 == QLeaf(1, sExists, JNull)
E2 == QLeaf(2, sExists, JNull)
N1 == QLeaf(1, sIsNull, JNull)
I1 == QLeaf(1, sIn, Strs(<< <<"A">> >>))
\* on the select field: a label, then an option id
I2 == QLeaf(2, sIn, Strs(<< <<"F">>, <<"y">> >>))
G3 == QLeaf(3, sGte, JStr(<<"2">>))
WellLeaves ==
    {E1, E2, N1, I1, I2, G3,
     QLeaf(3, sLte, JStr(<<"2">>)),
     QLeaf(3, sRange, Strs(<< <<"1">>, <<"3">> >>)),
     QLeaf(2, sIn, JArr(<<JNum(5), JStr(<<"L">>), JNull>>)),
     QLeaf(1, sIn, JArr(<<JNum(5), JStr(<<"F">>)>>)),
     QLeaf(MissingFieldId, sIn, Strs(<< <<"F">> >>)),
     QLeaf(2, sIsNull, JStr(<<"A">>)), QLeaf(3, sIsNull, JNum(1)),
     QLeaf(MissingFieldId, sIsNull, JNull),
     QLeaf(3, sGte, JStr(<<"'", "|", "|", "?", "|", "|", "'">>)),
     QLeaf(3, sLte, JStr(<<"'", "|", "|", "$", "1", "|", "|", "'">>))}

\* values a rule of type 42 can carry that are no leaf and no operator node
MalformedNodes ==
    {JNull, JNum(7), JStr(<<"x">>), JArr(<<>>),
     JArr(<<JStr(sAND)>>), JArr(<<JStr(sOR)>>),
     JArr(<<JStr(sAND), JNum(5)>>), JArr(<<JStr(sOR), JNull>>),
     JArr(<<JNum(1), JStr(sExists)>>),
     QLeaf(1, <<"l", "i", "k", "e">>, JStr(<<"A">>)),
     JArr(<<JStr(<<"1">>), JStr(sExists), JNull>>),
     JArr(<<JNum(1), JNum(5), JNull>>),
     QLeaf(1, sIn, JArr(<<>>)), QLeaf(1, sIn, JStr(<<"A">>)),
     QLeaf(3, sRange, Strs(<< <<"1">> >>))}

\* the sequences over S of at most n elements
SeqsUpTo(S, n) == UNION {[1..m -> S] : m \in 0..n}

NodeOps == {sAND, sOR}

\* operator nodes over leaves and malformed children
NodesOfLeaves ==
    {QNode(op, kids) : op \in NodeOps,
                       kids \in SeqsUpTo({E1, E2, I1, I2, G3, JNum(7),
                                          JArr(<<JStr(sAND)>>)}, MaxKids)}

\* operator nodes with an operator node among their children
NodesOfNodes ==
    LET inner == {QNode(op, <<x, y>>) : op \in NodeOps, x \in {E1, N1, I2},
                                      y \in {E2, I1, I2}}
        pairs == UNION {{<<n, x>>, <<x, n>>} : n \in inner, x \in {E1, I2, G3}}
    IN  {QNode(op, kids) : op \in NodeOps, kids \in pairs}

\* three levels of operator nodes
DeepNodes ==
    {QNode(a, <<QNode(b, <<QNode(c, <<I1, I2>>), E2>>), I2>>) : a, b, c \in NodeOps}

Queries == WellLeaves \cup MalformedNodes \cup NodesOfLeaves \cup NodesOfNodes \cup DeepNodes

CorrespondentRule == Rule(FILTER_CORRESPONDENT, JStr(<<"1">>))
E2Rule == CustomRule(E2)

\* the rule lists around one custom-field query
RuleLists(query) ==
    {<<CustomRule(query)>>, <<CorrespondentRule, CustomRule(query)>>,
     <<CustomRule(query), CorrespondentRule>>}

\* the queries the rule lists are built around
ListedQueries ==
    WellLeaves \cup MalformedNodes \cup DeepNodes
    \cup {q \in NodesOfLeaves \cup NodesOfNodes : q.a[2].a # <<>> /\ q.a[2].a[1] # I2}

\* is-in-inbox rules: with a string value, with a value that is no string
\* and without a value
InboxRules ==
    {Rule(FILTER_IS_IN_INBOX, v) : v \in {JStr(<<"1">>), JStr(<<>>), JNull, JNum(1)}}
    \cup {JObj(<<"rule_type">>, <<JNum(FILTER_IS_IN_INBOX)>>)}

InboxTexts ==
    UNION {{RulesText(<<r>>), RulesText(<<CorrespondentRule, r>>), RulesText(<<r, E2Rule>>)} :
             r \in InboxRules}

\* one builtin rule of every type that takes an operand, with two operands
BuiltinRuleTexts ==
    {RulesText(<<Rule(t, JStr(v))>>) :
       t \in FILTER_CORRESPONDENT..FILTER_ASN, v \in {<<"1">>, <<"'", ";">>}}

FilterTexts ==
    {EmptyText, EmptyArrayText, BadSyntaxText, NotRulesText,
     RulesText(<<JNull, Rule(FILTER_CUSTOM_FIELDS_QUERY, JStr(<<"{">>)),
                 Rule(FILTER_CUSTOM_FIELDS_QUERY, JNum(1)),
                 JObj(<<"value">>, <<JStr(<<"1">>)>>)>>)}
    \cup UNION {{RulesText(l) : l \in RuleLists(q)} : q \in ListedQueries}
    \cup InboxTexts \cup BuiltinRuleTexts

\* a dataset with a document for every combination of what a field can hold
FieldProfiles(f) ==
    IF f = 1 THEN <<NoRow, LiveRow(<<"A">>), LiveRow(<<>>), DeletedRow(<<"A">>), NullRow>>
    ELSE IF f = 2 THEN <<NoRow, LiveRow(<<"x">>), LiveRow(<<"y">>)>>
    ELSE <<NoRow, LiveRow(<<"2">>)>>

ProfileDocIds ==
    1..(Len(FieldProfiles(1)) * Len(FieldProfiles(2)) * Len(FieldProfiles(3)))

\* every seventh document is soft-deleted
ProfileDocs == [d \in ProfileDocIds |-> Doc(d % 7 = 0, 1 + (d % 2), FALSE, {})]

ProfileInsts ==
    [k \in ProfileDocIds \X FieldIds |->
       LET d == k[1] - 1
           n1 == Len(FieldProfiles(1))
           n2 == Len(FieldProfiles(2))
       IN  IF k[2] = 1 THEN FieldProfiles(1)[1 + (d % n1)]
           ELSE IF k[2] = 2 THEN FieldProfiles(2)[1 + ((d \div n1) % n2)]
           ELSE FieldProfiles(3)[1 + (d \div (n1 * n2))]]

CompileCalls ==
    {[NoCall EXCEPT !.op = "buildCustomFieldConditions", !.query = q, !.fieldID = k,
        !.startArgIndex = i] : q \in Queries, k \in FieldIds, i \in {1, 2}}
    \cup {[NoCall EXCEPT !.op = "buildDocumentFilterQuery", !.filterRulesJSON = text,
             !.fieldID = k] : text \in FilterTexts, k \in FieldIds}

CompileInit ==
    /\ engine \in Engines
    /\ docs = ProfileDocs
    /\ insts = ProfileInsts
    /\ call \in CompileCalls
    /\ pc = "called"
    /\ loc = NoLocals
    /\ ret = NoResponse
    /\ NoStores

\* buildCustomFieldConditions(query, excludeFieldID, startArgIndex, usePostgres)
CallBuildCustomFieldConditions ==
    /\ pc = "called"
    /\ call.op = "buildCustomFieldConditions"
    /\ ret' = buildCustomFieldConditions(call.query, call.fieldID, call.startArgIndex,
                                         UsePostgres(engine))
    /\ pc' = "returned"
    /\ UNCHANGED <<stores, engine, docs, insts, call, loc>>

\* buildDocumentFilterQuery(filterRulesJSON, excludeFieldID)
CallBuildDocumentFilterQuery ==
    /\ pc = "called"
    /\ call.op = "buildDocumentFilterQuery"
    /\ ret' = buildDocumentFilterQuery(call.filterRulesJSON, call.fieldID, engine)
    /\ pc' = "returned"
    /\ UNCHANGED <<stores, engine, docs, insts, call, loc>>

\* GetValueCounts, the caller, builds its statements around the filter
BuildStatements ==
    /\ pc = "returned"
    /\ call.op = "buildDocumentFilterQuery"
    /\ ~ret.panic
    /\ loc' = GetValueCountsLocals(call.fieldID, call.filterRulesJSON, engine)
    /\ pc' = "built"
    /\ UNCHANGED <<stores, engine, docs, insts, call, ret>>

CompileNext ==
    \/ CallBuildCustomFieldConditions
    \/ CallBuildDocumentFilterQuery
    \/ BuildStatements

CompileSpec == CompileInit /\ [][CompileNext]_vars

(***************************** GetBuiltinFilterValues ***********************)

FilterTypes == {"correspondent", "document_type", "tag", "storage_path", "owner", "asn"}

\* the mapping had the tag case named the document-type constant
ExcludeRuleTypeSlip(filterType) ==
    CASE filterType = "correspondent" -> FILTER_CORRESPONDENT
      [] filterType = "document_type" -> FILTER_DOCUMENT_TYPE
      [] filterType = "tag" -> FILTER_DOCUMENT_TYPE
      [] filterType = "storage_path" -> FILTER_STORAGE_PATH
      [] filterType = "owner" -> FILTER_OWNER_ANY
      [] filterType = "asn" -> FILTER_ASN
      [] OTHER -> 0

\* the switch that maps the filter type to the rule type to exclude
ExcludeRuleType(filterType) ==
    CASE filterType = "correspondent" -> FILTER_CORRESPONDENT
      [] filterType = "document_type" -> FILTER_DOCUMENT_TYPE
      [] filterType = "tag" -> FILTER_HAS_TAGS_ANY
      [] filterType = "storage_path" -> FILTER_STORAGE_PATH
      [] filterType = "owner" -> FILTER_OWNER_ANY
      [] filterType = "asn" -> FILTER_ASN
      [] OTHER -> 0

\* the rules the three-argument buildDocumentFilterQuery compiles: those
\* of the rule type to exclude are skipped
WithoutRuleType(filterRules, excludeRuleType) ==
    LET keep(rule) == MapGet(rule, "rule_type") # JNum(excludeRuleType)
    IN  SelectSeq(filterRules, keep)

\* buildDocumentFilterQuery(filterRulesJSON, excludeFieldID, excludeRuleType)
buildDocumentFilterQueryExcluding(filterRulesJSON, excludeFieldID, excludeRuleType, dbEngine) ==
    IF filterRulesJSON.s = <<>> THEN NoFilter
    ELSE IF UnmarshalRules(filterRulesJSON).err THEN FilterError
    ELSE FilterQueryOf(WithoutRuleType(UnmarshalRules(filterRulesJSON).v, excludeRuleType),
                       excludeFieldID, UsePostgres(dbEngine))

\* the ids of documents_correspondent, documents_documenttype,
\* documents_tag and documents_storagepath
DimensionIds(filterType) ==
    CASE filterType = "correspondent" -> {1, 2}
      [] filterType = "document_type" -> {1}
      [] filterType = "tag" -> {1, 2}
      [] filterType = "storage_path" -> {1}
      [] OTHER -> {}

\* the name of a row of those tables
DimensionName(filterType, id) ==
    CASE filterType = "correspondent" -> <<"C">> \o Itoa(id)
      [] filterType = "document_type" -> <<"T">> \o Itoa(id)
      [] filterType = "tag" -> <<"G">> \o Itoa(id)
      [] OTHER -> <<"P">> \o Itoa(id)

\* the join condition of the dimension row id with document d
JoinedOn(filterType, id, d, dtab) ==
    /\ ~dtab[d].deleted
    /\ CASE filterType = "correspondent" -> dtab[d].correspondent_id = id
         [] filterType = "document_type" -> dtab[d].document_type_id = id
         [] filterType = "tag" -> id \in dtab[d].tags
         [] OTHER -> dtab[d].storage_path_id = id

\* the statement of a filter type: strings.Replace(docFilterWhere, "WHERE ",
\* "", 1) after its own WHERE, the filter's arguments as its arguments
BuiltinStatement(filterType, docFilter) ==
    IF docFilter.where # <<>>
    THEN Statement(filterType, <<WHERE>> \o Tail(docFilter.where), docFilter.args)
    ELSE Statement(filterType, <<>>, <<>>)

\* the documents a group of the statement counts
GroupDocuments(filterType, id, stmt, dtab, itab) ==
    {d \in DOMAIN dtab :
       /\ JoinedOn(filterType, id, d, dtab)
       /\ stmt.where = <<>> \/ Selects(stmt.where, stmt.args, d, 0, dtab, itab)}

\* the rows id, name, doc_count of a dimension statement: the groups that
\* count a document
GroupRows(filterType, stmt, dtab, itab) ==
    {Facet(id, DimensionName(filterType, id),
           Cardinality(GroupDocuments(filterType, id, stmt, dtab, itab))) :
       id \in {i \in DimensionIds(filterType) :
                 GroupDocuments(filterType, i, stmt, dtab, itab) # {}}}

\* ORDER BY doc_count DESC, name ASC
OrderedRows(rows) ==
    CHOOSE o \in [1..Cardinality(rows) -> rows] :
       /\ \A i, j \in DOMAIN o : o[i] = o[j] => i = j
       /\ \A i, j \in DOMAIN o :
            i < j => \/ o[i].count > o[j].count
                     \/ (o[i].count = o[j].count /\ StrLess(o[i].label, o[j].label))

\* the loop over the rows: rows.Scan(&id, &label, &count) fails on the two
\* columns the owner and asn statements select, and such a row is skipped
ScannedRows(filterType, stmt, dtab, itab) ==
    IF filterType \in {"owner", "asn"} THEN <<>>
    ELSE OrderedRows(GroupRows(filterType, stmt, dtab, itab))

\* GetBuiltinFilterValues once buildDocumentFilterQuery has returned
BuiltinValuesWithin(filterType, docFilter, dtab, itab) ==
    IF docFilter.panic THEN Panic
    ELSE IF docFilter.err THEN Failure("failed to build filter query")
    ELSE IF filterType \notin FilterTypes THEN Failure("unsupported filter type")
    ELSE IF ~BindOk(docFilter.where, docFilter.args)
    THEN Failure("failed to query values")
    ELSE Response(ScannedRows(filterType, BuiltinStatement(filterType, docFilter),
                              dtab, itab), <<>>, 0)

GetBuiltinFilterValues(filterType, filterRulesJSON, dbEngine, dtab, itab) ==
    BuiltinValuesWithin(filterType,
                        buildDocumentFilterQueryExcluding(filterRulesJSON, 0,
                                                          ExcludeRuleType(filterType),
                                                          dbEngine),
                        dtab, itab)

(***************************** BuiltinSpec: the builtin facet engine ********)

BuiltinRules ==
    {Rule(FILTER_CORRESPONDENT, JStr(<<"1">>)), Rule(FILTER_DOCUMENT_TYPE, JStr(<<"1">>)),
     Rule(FILTER_HAS_TAGS_ANY, JStr(<<"2">>)), Rule(FILTER_STORAGE_PATH, JStr(<<"1">>)),
     Rule(FILTER_OWNER_ANY, JStr(<<"1">>)), Rule(FILTER_ASN, JStr(<<"1">>))}

OtherRules ==
    {Rule(FILTER_CREATED_AFTER, JStr(<<"1">>)), Rule(FILTER_IS_IN_INBOX, JStr(<<"1">>)),
     CustomRule(E1)}

BuiltinFilters ==
    {EmptyText, EmptyArrayText, BadSyntaxText, NotRulesText}
    \cup {RulesText(<<r>>) : r \in BuiltinRules \cup OtherRules}
    \cup {RulesText(<<r, q>>) : r \in BuiltinRules, q \in BuiltinRules \cup OtherRules}

BuiltinDocs ==
    <<[Doc(FALSE, 1, TRUE, {1}) EXCEPT !.document_type_id = 1, !.storage_path_id = 1,
         !.owner_id = 1, !.archive_serial_number = 1],
      Doc(FALSE, 2, FALSE, {1, 2}),
      [Doc(FALSE, 1, FALSE, {2}) EXCEPT !.document_type_id = 1],
      [Doc(TRUE, 1, FALSE, {1}) EXCEPT !.storage_path_id = 1]>>

BuiltinInit ==
    /\ engine \in Engines
    /\ docs = BuiltinDocs
    /\ insts = [k \in (DOMAIN BuiltinDocs) \X FieldIds |->
                  IF k[1] = 1 /\ k[2] = 1 THEN LiveRow(<<"A">>) ELSE NoRow]
    /\ call = NoCall
    /\ pc = "idle"
    /\ loc = NoLocals
    /\ ret = NoResponse
    /\ NoStores

CallGetBuiltinFilterValues ==
    /\ pc = "idle"
    /\ \E filterType \in FilterTypes \cup {"title"}, text \in BuiltinFilters :
         /\ call' = [NoCall EXCEPT !.op = "GetBuiltinFilterValues",
                       !.filterType = filterType, !.filterRulesJSON = text]
         /\ ret' = GetBuiltinFilterValues(filterType, text, engine, docs, insts)
         /\ loc' = Locals(buildDocumentFilterQueryExcluding(text, 0,
                                                            ExcludeRuleType(filterType),
                                                            engine),
                          NoStatement, NoStatement)
    /\ pc' = "done"
    /\ UNCHANGED <<stores, engine, docs, insts>>

BuiltinNext ==
    \/ CallGetBuiltinFilterValues
    \/ Return

BuiltinSpec == BuiltinInit /\ [][BuiltinNext]_vars

(***************************** HelperSpec: sortValues, parseValueList *******)

\* how many facets the lists given to sortValues have at most
MaxFacets == 3

\* how many characters the raw values given to parseValueList have at most
MaxLen == 4

\* the facets the lists are made of: labels that differ in case only, and
\* equal labels with different counts
SortFacets ==
    {Facet(generateID(l), l, c) : l \in {<<"a">>, <<"A">>, <<"B">>}, c \in {1, 2}}

\* [{A,5},{B,5},{C,3}]
ExampleValues ==
    <<Facet(generateID(<<"A">>), <<"A">>, 5), Facet(generateID(<<"B">>), <<"B">>, 5),
      Facet(generateID(<<"C">>), <<"C">>, 3)>>

SortInputs == SeqsUpTo(SortFacets, MaxFacets) \cup {ExampleValues}

\* sortBy and sortOrder as a client may spell them
SortByChoices == {<<>>, sCount, sLabel, <<"C", "o", "u", "n", "t">>}
SortOrderChoices == {<<>>, sAsc, sDesc}

RawValues == SeqsUpTo({"A", " ", ",", ":", ";"}, MaxLen)

\* the argument of a helper call
HelperInput(values, value) == [values |-> values, value |-> value]

\* what parseValueList returns
Parts(parts) == [parts |-> parts]

HelperInit ==
    /\ engine \in Engines
    /\ docs = InitialDocs
    /\ insts = InitialInsts
    /\ call = NoCall
    /\ pc = "idle"
    /\ loc = NoLocals
    /\ ret = NoResponse
    /\ NoStores

CallSortValues ==
    /\ pc = "idle"
    /\ \E values \in SortInputs, sortBy \in SortByChoices,
          sortOrder \in SortOrderChoices, ignoreCase \in BOOLEAN :
         /\ call' = [NoCall EXCEPT !.op = "sortValues", !.sortBy = sortBy,
                       !.sortOrder = sortOrder, !.ignoreCase = ignoreCase]
         /\ loc' = HelperInput(values, <<>>)
         /\ ret' = Response(sortValues(values, sortBy, sortOrder, ignoreCase), <<>>, 0)
    /\ pc' = "done"
    /\ UNCHANGED <<stores, engine, docs, insts>>

CallParseValueList ==
    /\ pc = "idle"
    /\ \E value \in RawValues :
         /\ call' = [NoCall EXCEPT !.op = "parseValueList"]
         /\ loc' = HelperInput(<<>>, value)
         /\ ret' = Parts(parseValueList(value))
    /\ pc' = "done"
    /\ UNCHANGED <<stores, engine, docs, insts>>

HelperNext ==
    \/ CallSortValues
    \/ CallParseValueList
    \/ Return

HelperSpec == HelperInit /\ [][HelperNext]_vars

(***************************** StepSpec: one statement at a time ***********)

\* GetFieldValues and GetValueCounts send their statements to the database
\* one by one through s.db, outside any transaction: here every statement
\* is a step of its own and other clients write between the steps.

\* the rows other clients store while an operation runs
StepRows(f) ==
    IF f = 1 THEN {LiveRow(<<"A">>), NullRow, NoRow}
    ELSE IF f = 2 THEN {LiveRow(<<"x">>), NoRow}
    ELSE {}

StepFieldIds == {1, MissingFieldId}

StepFilters == {EmptyText, RulesText(<<CustomRule(QLeaf(2, sExists, JNull))>>)}

\* the local variables of a running facet operation: its statements, the
\* values appended so far and totalDocuments
StepLocals(l, values, total) ==
    [docFilter |-> l.docFilter, valueQuery |-> l.valueQuery, blankQuery |-> l.blankQuery,
     values |-> values, total |-> total]

\* the order of the statements had the blank-count query come first
StatementAfterBlankFirst(op, at) ==
    CASE at = "metadata" -> "blank"
      [] at = "blank" -> "values"
      [] at = "values" -> IF op = "GetFieldValues" THEN "total" ELSE "done"
      [] at = "total" -> "done"
      [] OTHER -> "none"

\* the statement an operation sends after the one that brought it to `at`:
\* metadata, value query, blank-count query, then the total of
\* GetFieldValues
StatementAfter(op, at) ==
    CASE at = "metadata" -> "values"
      [] at = "values" -> "blank"
      [] at = "blank" -> IF op = "GetFieldValues" THEN "total" ELSE "done"
      [] at = "total" -> "done"
      [] OTHER -> "none"

\* another client commits a write to the instance of field f on document d,
\* whatever the operation is doing
ConcurrentWrite ==
    /\ \E d \in DocIds, f \in FieldIds : \E row \in StepRows(f) :
         /\ insts' = [insts EXCEPT ![<<d, f>>] = row]
         /\ insts' # insts
    /\ UNCHANGED <<stores, engine, docs, call, pc, loc, ret>>

\* the operation starts: it reads the field's row and builds its statements
FetchMetadata ==
    /\ pc = "idle"
    /\ \E op \in {"GetFieldValues", "GetValueCounts"}, f \in StepFieldIds, text \in StepFilters :
         /\ op = "GetFieldValues" => text = EmptyText
         /\ call' = [NoCall EXCEPT !.op = op, !.fieldID = f, !.filterRulesJSON = text]
         /\ IF f \notin FieldIds
            THEN /\ pc' = "done"
                 /\ loc' = NoLocals
                 /\ ret' = IF op = "GetFieldValues" THEN Failure("custom field not found")
                           ELSE Failure("failed to get field info")
            ELSE /\ pc' = "metadata"
                 /\ loc' = StepLocals(IF op = "GetFieldValues"
                                      THEN GetFieldValuesLocals(f, engine)
                                      ELSE GetValueCountsLocals(f, text, engine), <<>>, 0)
                 /\ ret' = ret
    /\ UNCHANGED <<stores, engine, docs, insts>>

\* s.db.Query(queryValues, args...) and the loops over its rows and over
\* valueDocumentMap
QueryValues ==
    /\ StatementAfter(call.op, pc) = "values"
    /\ LET valueResult == Run(loc.valueQuery, docs, insts)
           field == documents_customfield[call.fieldID]
       IN  IF valueResult.err
           THEN /\ pc' = "done"
                /\ loc' = loc
                /\ ret' = Failure("failed to query field values")
           ELSE /\ pc' = "values"
                /\ \E o \in IterationOrders(DOMAIN ValueDocumentMap(valueResult.rows, insts)) :
                      loc' = [loc EXCEPT !.values =
                                loc.values \o
                                ValuesIn(o, ValueDocumentMap(valueResult.rows, insts),
                                         field.data_type,
                                         SelectOptions(field.data_type, field.extra_data))]
                /\ ret' = ret
    /\ UNCHANGED <<stores, engine, docs, insts, call>>

\* s.db.QueryRow(blankCountQuery, blankCountArgs...) and the append of the
\* blank option
QueryBlank ==
    /\ StatementAfter(call.op, pc) = "blank"
    /\ pc' = "blank"
    /\ loc' = [loc EXCEPT !.values = WithBlank(loc.values, Run(loc.blankQuery, docs, insts))]
    /\ UNCHANGED <<stores, engine, docs, insts, call, ret>>

\* s.db.QueryRow(queryTotalDocs) of GetFieldValues
QueryTotal ==
    /\ StatementAfter(call.op, pc) = "total"
    /\ pc' = "total"
    /\ loc' = [loc EXCEPT !.total = Cardinality(Run(TotalStatement, docs, insts).rows)]
    /\ UNCHANGED <<stores, engine, docs, insts, call, ret>>

\* the values are sorted and the response is built
Finish ==
    /\ StatementAfter(call.op, pc) = "done"
    /\ pc' = "done"
    /\ ret' = IF call.op = "GetFieldValues"
              THEN Response(sortValues(loc.values, call.sortBy, call.sortOrder,
                                       call.ignoreCase),
                            documents_customfield[call.fieldID].name, loc.total)
              ELSE Response(sortValues(loc.values, CountsSortBy(call.sortBy),
                                       CountsSortOrder(call.sortOrder), call.ignoreCase),
                            <<>>, 0)
    /\ UNCHANGED <<stores, engine, docs, insts, call, loc>>

StepNext ==
    \/ ConcurrentWrite
    \/ FetchMetadata
    \/ QueryValues
    \/ QueryBlank
    \/ QueryTotal
    \/ Finish
    \/ Return

StepSpec == Init /\ [][StepNext]_vars

(***************************** custom views ********************************)

\* a *bool that is set
JBool(b) == [t |-> "bool", n |-> IF b THEN 1 ELSE 0, s |-> <<>>, a |-> <<>>]

\* var view CustomView: nil pointers, slices and maps are JNull, a nil
\* *int is 0
ZeroView ==
    [id |-> 0, name |-> <<>>, description |-> JNull, column_order |-> JNull,
     column_sizing |-> JNull, column_visibility |-> JNull,
     column_display_types |-> JNull, filter_rules |-> JNull,
     filter_visibility |-> JNull, filter_types |-> JNull,
     edit_mode_settings |-> JNull, column_styles |-> JNull,
     subrow_enabled |-> JNull, subrow_content |-> JNull, column_spanning |-> JNull,
     sort_field |-> JNull, sort_reverse |-> JNull, is_global |-> JNull,
     owner_id |-> 0, username |-> JNull, deleted_at |-> JNull]

\* string(json.Marshal(v)): the text that decodes to v
Marshal(v) == JText(<<"j">>, v)

\* the row INSERT INTO custom_views (name, ..., username) stores; the
\* columns the statement does not name keep their defaults and are not kept
InsertedRow(view, userID, username) ==
    [name |-> view.name, description |-> view.description,
     column_order |-> Marshal(view.column_order),
     column_sizing |-> Marshal(view.column_sizing),
     column_visibility |-> Marshal(view.column_visibility),
     column_display_types |-> Marshal(view.column_display_types),
     filter_rules |-> Marshal(view.filter_rules),
     filter_visibility |-> Marshal(view.filter_visibility),
     sort_field |-> view.sort_field,
     sort_reverse |-> (view.sort_reverse = JBool(TRUE)),
     is_global |-> (view.is_global = JBool(TRUE)),
     owner_id |-> userID, username |-> username, deleted |-> FALSE]

\* scanCustomView on the seventeen columns the SELECT statements name
scanCustomView(id, row) ==
    [ZeroView EXCEPT
       !.id = id, !.name = row.name, !.description = row.description,
       !.column_order = UnmarshalAny(row.column_order).v,
       !.column_sizing = UnmarshalAny(row.column_sizing).v,
       !.column_visibility = UnmarshalAny(row.column_visibility).v,
       !.column_display_types = UnmarshalAny(row.column_display_types).v,
       !.filter_rules = UnmarshalAny(row.filter_rules).v,
       !.filter_visibility = UnmarshalAny(row.filter_visibility).v,
       !.sort_field = row.sort_field,
       !.sort_reverse = JBool(row.sort_reverse),
       !.is_global = JBool(row.is_global),
       !.owner_id = row.owner_id, !.username = row.username,
       !.deleted_at = IF row.deleted THEN JStr(<<"t">>) ELSE JNull]

\* what the operations on custom views return
ViewResult(err, view, views) == [err |-> err, view |-> view, views |-> views]
ViewNotFound == ViewResult("custom view not found", ZeroView, <<>>)
ViewPermissionDenied ==
    ViewResult("permission denied: view belongs to another user", ZeroView, <<>>)

\* GetCustomView had its statement not tested deleted_at
GetCustomViewOfAnyRow(id, table) ==
    IF id \in DOMAIN table THEN ViewResult("", scanCustomView(id, table[id]), <<>>)
    ELSE ViewNotFound

\* GetCustomView: SELECT ... WHERE id = ? AND deleted_at IS NULL
GetCustomView(id, table) ==
    IF id \in DOMAIN table /\ ~table[id].deleted
    THEN ViewResult("", scanCustomView(id, table[id]), <<>>)
    ELSE ViewNotFound

\* the WHERE clause of ListCustomViews; userID is 0 for a nil *int
Listed(row, userID, includeGlobal) ==
    /\ ~row.deleted
    /\ IF userID # 0
       THEN row.owner_id = userID \/ (includeGlobal /\ row.is_global)
       ELSE row.is_global

RECURSIVE ListFrom(_, _, _, _)
\* the rows in the order ORDER BY created DESC gives them, the row created
\* last first
ListFrom(table, i, userID, includeGlobal) ==
    IF i = 0 THEN <<>>
    ELSE (IF Listed(table[i], userID, includeGlobal)
          THEN <<scanCustomView(i, table[i])>> ELSE <<>>)
         \o ListFrom(table, i - 1, userID, includeGlobal)

ListCustomViews(userID, includeGlobal, table) ==
    ViewResult("", ZeroView, ListFrom(table, Len(table), userID, includeGlobal))

\* the ownership check of UpdateCustomView
UpdateAllowed(existing, userID) ==
    ~(existing.owner_id # 0 /\ existing.owner_id # userID)
    \/ existing.is_global = JBool(TRUE)

\* the ownership check of DeleteCustomView
DeleteAllowed(existing, userID) ==
    ~(existing.owner_id # 0 /\ existing.owner_id # userID)

\* len(setParts) > 0: the update names a column
HasSetParts(updates) ==
    \/ updates.name # <<>>
    \/ \E c \in {"description", "column_order", "column_sizing", "column_visibility",
                 "column_display_types", "filter_rules", "filter_visibility",
                 "sort_field", "sort_reverse", "is_global"} : updates[c] # JNull

\* UPDATE custom_views SET <setParts> WHERE id = ?
UpdatedRow(row, u) ==
    [row EXCEPT
       !.name = IF u.name # <<>> THEN u.name ELSE @,
       !.description = IF u.description # JNull THEN u.description ELSE @,
       !.column_order = IF u.column_order # JNull THEN Marshal(u.column_order) ELSE @,
       !.column_sizing = IF u.column_sizing # JNull THEN Marshal(u.column_sizing) ELSE @,
       !.column_visibility =
          IF u.column_visibility # JNull THEN Marshal(u.column_visibility) ELSE @,
       !.column_display_types =
          IF u.column_display_types # JNull THEN Marshal(u.column_display_types) ELSE @,
       !.filter_rules = IF u.filter_rules # JNull THEN Marshal(u.filter_rules) ELSE @,
       !.filter_visibility =
          IF u.filter_visibility # JNull THEN Marshal(u.filter_visibility) ELSE @,
       !.sort_field = IF u.sort_field # JNull THEN u.sort_field ELSE @,
       !.sort_reverse = IF u.sort_reverse # JNull THEN u.sort_reverse = JBool(TRUE) ELSE @,
       !.is_global = IF u.is_global # JNull THEN u.is_global = JBool(TRUE) ELSE @]

\* existing after the assignments UpdateCustomView makes next to setParts
UpdatedView(existing, u) ==
    [existing EXCEPT
       !.name = IF u.name # <<>> THEN u.name ELSE @,
       !.description = IF u.description # JNull THEN u.description ELSE @,
       !.column_order = IF u.column_order # JNull THEN u.column_order ELSE @,
       !.column_sizing = IF u.column_sizing # JNull THEN u.column_sizing ELSE @,
       !.column_visibility = IF u.column_visibility # JNull THEN u.column_visibility ELSE @,
       !.column_display_types =
          IF u.column_display_types # JNull THEN u.column_display_types ELSE @,
       !.filter_rules = IF u.filter_rules # JNull THEN u.filter_rules ELSE @,
       !.filter_visibility = IF u.filter_visibility # JNull THEN u.filter_visibility ELSE @,
       !.sort_field = IF u.sort_field # JNull THEN u.sort_field ELSE @,
       !.sort_reverse = IF u.sort_reverse # JNull THEN u.sort_reverse ELSE @,
       !.is_global = IF u.is_global # JNull THEN u.is_global ELSE @]

\* a request on a record store: the operation, where it is (idle, checked,
\* written, done), its arguments, its local variable existing and its result
Request(op, at, id, userID, view, existing, result) ==
    [op |-> op, at |-> at, id |-> id, userID |-> userID, view |-> view,
     existing |-> existing, result |-> result]
NoRequest == Request("none", "idle", 0, 0, ZeroView, ZeroView, ViewResult("", ZeroView, <<>>))

(***************************** ViewSpec: the custom view store **************)

\* how many views are created at most
MaxViews == 1

Procs == {1, 2}
Users == {1, 2}
Username(u) == JStr(<<"u">>)

\* the views clients post
ViewInputs ==
    {[ZeroView EXCEPT !.name = <<"v">>],
     [ZeroView EXCEPT !.name = <<"v">>, !.description = JStr(<<"d">>),
        !.column_order = JArr(<<JNum(1), JStr(<<"t">>)>>),
        !.column_sizing = JObj(<<"t">>, <<JNum(9)>>),
        !.filter_rules = JArr(<<Rule(FILTER_CORRESPONDENT, JStr(<<"1">>))>>),
        !.sort_field = JStr(<<"t">>), !.sort_reverse = JBool(TRUE),
        !.is_global = JBool(TRUE)],
     [ZeroView EXCEPT !.name = <<"w">>,
        !.filter_types = JObj(<<"1">>, <<JStr(<<"x">>)>>),
        !.subrow_enabled = JBool(TRUE), !.is_global = JBool(FALSE)]}

\* the updates clients put
ViewUpdates ==
    {ZeroView,
     [ZeroView EXCEPT !.name = <<"n">>, !.is_global = JBool(FALSE)],
     [ZeroView EXCEPT !.is_global = JBool(TRUE),
        !.column_visibility = JObj(<<"t">>, <<JBool(FALSE)>>)],
     [ZeroView EXCEPT !.description = JStr(<<"e">>),
        !.column_styles = JObj(<<"1">>, <<JStr(<<"c">>)>>)]}

\* the ids requests name: the rows there can be, and one more
ViewIds == 1..(MaxViews + 1)

ViewInit ==
    /\ engine = "postgresql"
    /\ docs = InitialDocs
    /\ insts = InitialInsts
    /\ call = NoCall
    /\ pc = "idle"
    /\ loc = NoLocals
    /\ ret = NoResponse
    /\ custom_views = <<>>
    /\ tag_group_memberships = {}
    /\ tag_descriptions = <<>>
    /\ reqs = [p \in Procs |-> NoRequest]

\* what the custom view actions leave alone
untouched == <<engine, docs, insts, call, pc, loc, ret, tag_group_memberships, tag_descriptions>>

\* CreateCustomView(view, userID, username): one INSERT; the view returned
\* is the view given with id, owner and username filled in
CreateCustomView(p) ==
    /\ reqs[p].at = "idle"
    /\ Len(custom_views) < MaxViews
    /\ \E view \in ViewInputs, u \in Users :
         /\ custom_views' = Append(custom_views, InsertedRow(view, u, Username(u)))
         /\ reqs' = [reqs EXCEPT ![p] =
               Request("CreateCustomView", "done", Len(custom_views) + 1, u, view, ZeroView,
                       ViewResult("", [view EXCEPT !.id = Len(custom_views) + 1,
                                         !.owner_id = u, !.username = Username(u)], <<>>))]
    /\ UNCHANGED untouched

CallGetCustomView(p) ==
    /\ reqs[p].at = "idle"
    /\ \E id \in ViewIds :
         reqs' = [reqs EXCEPT ![p] =
            Request("GetCustomView", "done", id, 0, ZeroView, ZeroView,
                    GetCustomView(id, custom_views))]
    /\ UNCHANGED <<untouched, custom_views>>

CallListCustomViews(p) ==
    /\ reqs[p].at = "idle"
    /\ \E u \in Users \cup {0}, includeGlobal \in BOOLEAN :
         reqs' = [reqs EXCEPT ![p] =
            Request("ListCustomViews", "done", 0, u, ZeroView, ZeroView,
                    ListCustomViews(u, includeGlobal, custom_views))]
    /\ UNCHANGED <<untouched, custom_views>>

\* UpdateCustomView up to its UPDATE statement: the view is read, the
\* ownership is checked and setParts is built
UpdateCheck(p) ==
    /\ reqs[p].at = "idle"
    /\ \E id \in ViewIds, u \in Users, updates \in ViewUpdates :
         LET got == GetCustomView(id, custom_views) IN
         reqs' = [reqs EXCEPT ![p] =
            IF got.err # ""
            THEN Request("UpdateCustomView", "done", id, u, updates, ZeroView, got)
            ELSE IF ~UpdateAllowed(got.view, u)
            THEN Request("UpdateCustomView", "done", id, u, updates, got.view,
                         ViewPermissionDenied)
            ELSE IF ~HasSetParts(updates)
            THEN Request("UpdateCustomView", "done", id, u, updates, got.view,
                         ViewResult("", UpdatedView(got.view, updates), <<>>))
            ELSE Request("UpdateCustomView", "checked", id, u, updates,
                         UpdatedView(got.view, updates), ViewResult("", ZeroView, <<>>))]
    /\ UNCHANGED <<untouched, custom_views>>

\* s.db.Exec(updateQuery, args...)
UpdateExec(p) ==
    /\ reqs[p].op = "UpdateCustomView" /\ reqs[p].at = "checked"
    /\ custom_views' = [custom_views EXCEPT
                          ![reqs[p].id] = UpdatedRow(@, reqs[p].view)]
    /\ reqs' = [reqs EXCEPT ![p].at = "written"]
    /\ UNCHANGED untouched

\* return s.GetCustomView(id)
UpdateFetch(p) ==
    /\ reqs[p].op = "UpdateCustomView" /\ reqs[p].at = "written"
    /\ reqs' = [reqs EXCEPT ![p].at = "done",
                            ![p].result = GetCustomView(reqs[p].id, custom_views)]
    /\ UNCHANGED <<untouched, custom_views>>

\* DeleteCustomView up to its UPDATE statement
DeleteCheck(p) ==
    /\ reqs[p].at = "idle"
    /\ \E id \in ViewIds, u \in Users :
         LET got == GetCustomView(id, custom_views) IN
         reqs' = [reqs EXCEPT ![p] =
            IF got.err # ""
            THEN Request("DeleteCustomView", "done", id, u, ZeroView, ZeroView, got)
            ELSE IF ~DeleteAllowed(got.view, u)
            THEN Request("DeleteCustomView", "done", id, u, ZeroView, got.view,
                         ViewPermissionDenied)
            ELSE Request("DeleteCustomView", "checked", id, u, ZeroView, got.view,
                         ViewResult("", ZeroView, <<>>))]
    /\ UNCHANGED <<untouched, custom_views>>

\* UPDATE custom_views SET deleted_at = CURRENT_TIMESTAMP WHERE id = ?
DeleteExec(p) ==
    /\ reqs[p].op = "DeleteCustomView" /\ reqs[p].at = "checked"
    /\ custom_views' = [custom_views EXCEPT ![reqs[p].id].deleted = TRUE]
    /\ reqs' = [reqs EXCEPT ![p].at = "done"]
    /\ UNCHANGED untouched

\* the response is sent and the request is over
ViewReturn(p) ==
    /\ reqs[p].at = "done"
    /\ reqs' = [reqs EXCEPT ![p] = NoRequest]
    /\ UNCHANGED <<untouched, custom_views>>

ViewNext ==
    \/ \E p \in Procs : CreateCustomView(p)
    \/ \E p \in Procs : CallGetCustomView(p)
    \/ \E p \in Procs : CallListCustomViews(p)
    \/ \E p \in Procs : UpdateCheck(p)
    \/ \E p \in Procs : UpdateExec(p)
    \/ \E p \in Procs : UpdateFetch(p)
    \/ \E p \in Procs : DeleteCheck(p)
    \/ \E p \in Procs : DeleteExec(p)
    \/ \E p \in Procs : ViewReturn(p)

ViewSpec == ViewInit /\ [][ViewNext]_vars

(***************************** properties of the custom view store **********)

\* process p starts operation op on view i in this step
StartsOn(p, op, i) ==
    /\ reqs[p].at = "idle"
    /\ reqs'[p].op = op
    /\ reqs'[p].id = i

\* C23: once a view is soft-deleted its row stays in the table and stays
\* deleted, and every call made from then on does not see it: GetCustomView,
\* UpdateCustomView and DeleteCustomView of its id answer not found, the
\* closing read of an UpdateCustomView under way answers not found, and
\* ListCustomViews leaves it out
C23_DeletedStaysInvisible ==
    [][\A i \in DOMAIN custom_views : custom_views[i].deleted =>
         /\ i \in DOMAIN custom_views' /\ custom_views'[i].deleted
         /\ \A p \in Procs :
              /\ \A op \in {"GetCustomView", "UpdateCustomView", "DeleteCustomView"} :
                   StartsOn(p, op, i) => reqs'[p].at = "done" /\ reqs'[p].result = ViewNotFound
              /\ (reqs[p].at = "written" /\ reqs'[p].at = "done" /\ reqs[p].id = i)
                   => reqs'[p].result = ViewNotFound
              /\ StartsOn(p, "ListCustomViews", 0)
                   => \A k \in DOMAIN reqs'[p].result.views : reqs'[p].result.views[k].id # i]_vars

\* view 1 is deleted and a GetCustomView(1) has answered not found while a
\* DeleteCustomView(1) has too
C23_Witness ==
    /\ 1 \in DOMAIN custom_views /\ custom_views[1].deleted
    /\ \E p, q \in Procs :
         /\ reqs[p].op = "GetCustomView" /\ reqs[p].id = 1
         /\ reqs[p].at = "done" /\ reqs[p].result = ViewNotFound
         /\ reqs[q].op = "DeleteCustomView" /\ reqs[q].id = 1
         /\ reqs[q].at = "done" /\ reqs[q].result = ViewNotFound

\* process p is not the owner of the view its request names
NonOwner(p) ==
    /\ reqs'[p].id \in DOMAIN custom_views
    /\ ~custom_views[reqs'[p].id].deleted
    /\ custom_views[reqs'[p].id].owner_id # reqs'[p].userID

\* a DeleteCustomView by a non-owner and an UpdateCustomView by a non-owner
\* of a view that is not global answer permission denied, and the table is
\* as it was
DeniedAtCheck ==
    \A p \in Procs :
       /\ StartsOn(p, "DeleteCustomView", reqs'[p].id) /\ NonOwner(p)
            => reqs'[p].result = ViewPermissionDenied /\ custom_views' = custom_views
       /\ (/\ StartsOn(p, "UpdateCustomView", reqs'[p].id) /\ NonOwner(p)
           /\ ~custom_views[reqs'[p].id].is_global)
            => reqs'[p].result = ViewPermissionDenied /\ custom_views' = custom_views

\* the statement a request runs after its check writes to a view its user
\* owns or, for an update, to a view that is global when the statement runs
WritesAllowed ==
    \A p \in Procs :
       reqs[p].at = "checked" /\ reqs'[p].at # "checked" =>
          \/ custom_views[reqs[p].id].owner_id = reqs[p].userID
          \/ reqs[p].op = "UpdateCustomView" /\ custom_views[reqs[p].id].is_global

\* C27: DeleteCustomView by a non-owner answers permission denied,
\* UpdateCustomView by a non-owner answers permission denied unless the view
\* is global, a denial leaves the stored view unchanged, and in every
\* interleaving no write of a non-owner is applied to a view that is not
\* global at the moment of the write
C27_OwnersWrite == [][DeniedAtCheck /\ WritesAllowed]_vars

\* the part of C27 that holds: what the ownership checks answer
C27_DeniedAtCheck == [][DeniedAtCheck]_vars

\* the fields of a view a client can set
ClientFields ==
    {"name", "description", "column_order", "column_sizing", "column_visibility",
     "column_display_types", "filter_rules", "filter_visibility", "filter_types",
     "edit_mode_settings", "column_styles", "subrow_enabled", "subrow_content",
     "column_spanning", "sort_field", "sort_reverse", "is_global"}

\* the fields the statements of custom_views.go name
StoredFields ==
    {"name", "description", "column_order", "column_sizing", "column_visibility",
     "column_display_types", "filter_rules", "filter_visibility", "sort_field",
     "sort_reverse", "is_global"}

\* the request carries a value for field c
IsSet(view, c) == IF c = "name" THEN view.name # <<>> ELSE view[c] # JNull

\* got holds what was posted in the fields of cs; a flag that was not posted
\* reads false
SameAsPosted(view, got, cs) ==
    \A c \in cs :
       got[c] = (IF c \in {"sort_reverse", "is_global"} /\ view[c] = JNull
                 THEN JBool(FALSE) ELSE view[c])

\* got holds what was put in the fields of cs that the update carries
SameAsPut(updates, got, cs) == \A c \in cs : IsSet(updates, c) => got[c] = updates[c]

\* reading back, over the fields of cs, the view of every finished
\* CreateCustomView whose row is as created and of every finished
\* UpdateCustomView whose row still holds the update
ReadsBack(cs) ==
    \A p \in Procs :
       LET r == reqs[p]
           got == GetCustomView(r.id, custom_views)
       IN  /\ (/\ r.op = "CreateCustomView" /\ r.at = "done"
               /\ custom_views[r.id] = InsertedRow(r.view, r.userID, Username(r.userID)))
              => got.err = "" /\ SameAsPosted(r.view, got.view, cs)
           /\ (/\ r.op = "UpdateCustomView" /\ r.at = "done" /\ r.result.err = ""
               /\ ~custom_views[r.id].deleted
               /\ custom_views[r.id] = UpdatedRow(custom_views[r.id], r.view))
              => got.err = "" /\ SameAsPut(r.view, got.view, cs)

\* C30: after CreateCustomView, GetCustomView of the new id returns the value
\* posted for every client-settable field, and after UpdateCustomView the
\* value put for every field the update carries
C30_RoundTrip == ReadsBack(ClientFields)

\* the part of C30 that holds: the round trip of the eleven fields the
\* statements name
C30_RoundTripOfStoredFields == ReadsBack(StoredFields)

(***************************** tag groups and tag descriptions *************)

\* a request on the tag tables: id is the group or the tag, arg the
\* TagGroup or the description sent, i the local loop index, existing the
\* id of the row GetTagDescription found (0 for none); alone records, for
\* an UpdateTagGroup, that no other UpdateTagGroup ran while it did (a
\* history of the run, not a variable of the program)
TagRequest(op, at, id, arg, i, existing, err, got, alone) ==
    [op |-> op, at |-> at, id |-> id, arg |-> arg, i |-> i, existing |-> existing,
     err |-> err, got |-> got, alone |-> alone]
NoTagRequest == TagRequest("none", "idle", 0, <<>>, 0, 0, "", <<>>, TRUE)

RECURSIVE Ascending(_)
\* the elements of a set of numbers, smallest first
Ascending(S) ==
    IF S = {} THEN <<>>
    ELSE LET least == CHOOSE x \in S : \A y \in S : x <= y
         IN  <<least>> \o Ascending(S \ {least})

\* getTagGroupMemberships: SELECT tag_id ... WHERE tag_group_id = ? ORDER BY
\* tag_id ASC
getTagGroupMemberships(groupID, memberships) ==
    Ascending({m[2] : m \in {k \in memberships : k[1] = groupID}})

\* DELETE FROM tag_group_memberships WHERE tag_group_id = ?
WithoutMemberships(groupID, memberships) == {k \in memberships : k[1] # groupID}

\* INSERT INTO tag_group_memberships (tag_group_id, tag_id): the pair is
\* UNIQUE, an insert of a pair that is there fails and is only logged
WithMembership(groupID, tagID, memberships) == memberships \cup {<<groupID, tagID>>}

\* a row of tag_descriptions; its id is its index, and gone marks a row that
\* DELETE removed
DescriptionRow(tagID, description) == [tag_id |-> tagID, description |-> description, gone |-> FALSE]

\* the ids of the rows of a tag
RowsOfTag(tagID, table) == {r \in DOMAIN table : ~table[r].gone /\ table[r].tag_id = tagID}

\* GetTagDescription: the id of the row of the tag, 0 for the empty
\* description returned on sql.ErrNoRows
GetTagDescription(tagID, table) ==
    IF RowsOfTag(tagID, table) = {} THEN 0 ELSE CHOOSE r \in RowsOfTag(tagID, table) : TRUE

\* the INSERT of SetTagDescription had tag_id not been UNIQUE
InsertDescriptionNotUnique(tagID, description, table) ==
    [err |-> "", table |-> Append(table, DescriptionRow(tagID, description))]

\* INSERT INTO tag_descriptions (tag_id, description): tag_id is UNIQUE
InsertDescription(tagID, description, table) ==
    IF RowsOfTag(tagID, table) # {}
    THEN [err |-> "failed to save tag description", table |-> table]
    ELSE [err |-> "", table |-> Append(table, DescriptionRow(tagID, description))]

\* UPDATE tag_descriptions SET description = ? WHERE tag_id = ?; on
\* PostgreSQL the statement is RETURNING modified and its Scan fails with
\* sql.ErrNoRows when no row is updated
UpdateDescription(tagID, description, table, dbEngine) ==
    IF RowsOfTag(tagID, table) = {} /\ dbEngine = "postgresql"
    THEN [err |-> "failed to save tag description", table |-> table]
    ELSE [err |-> "",
          table |-> [r \in DOMAIN table |->
                       IF r \in RowsOfTag(tagID, table)
                       THEN [table[r] EXCEPT !.description = description]
                       ELSE table[r]]]

(***************************** TagSpec: the tag tables **********************)

\* how many rows of tag_descriptions are inserted at most
MaxRows == 2

\* the tag groups there are, and the one the requests name
TagGroupIds == {1}
TagGroupId == CHOOSE g \in TagGroupIds : TRUE
DescribedTags == {1}

\* the TagGroup values clients put: tag_ids given, or nil
TagGroupUpdates ==
    {[tag_ids |-> T, nil |-> FALSE] : T \in {<<>>, <<1>>, <<2>>, <<2, 1>>, <<1, 1>>}}
    \cup {[tag_ids |-> <<>>, nil |-> TRUE]}
Descriptions == {<<"p">>, <<"q">>}

TagInit ==
    /\ engine \in Engines
    /\ docs = InitialDocs
    /\ insts = InitialInsts
    /\ call = NoCall
    /\ pc = "idle"
    /\ loc = NoLocals
    /\ ret = NoResponse
    /\ custom_views = <<>>
    /\ tag_group_memberships = {}
    /\ tag_descriptions = <<>>
    /\ reqs = [p \in Procs |-> NoTagRequest]

\* what the actions on the tag tables leave alone
apart == <<engine, docs, insts, call, pc, loc, ret, custom_views>>

\* the UpdateTagGroup of process p is between its statements
UnderWay(p) == reqs[p].at \in {"deleting", "inserting"}

\* GetTagGroup(id): the group with its memberships
CallGetTagGroup(p) ==
    /\ reqs[p].at = "idle"
    /\ reqs' = [reqs EXCEPT ![p] =
          TagRequest("GetTagGroup", "done", TagGroupId, <<>>, 0, 0, "",
                     getTagGroupMemberships(TagGroupId, tag_group_memberships), TRUE)]
    /\ UNCHANGED <<apart, tag_group_memberships, tag_descriptions>>

\* UpdateTagGroup up to updateTagGroupMemberships: the group is read and
\* its name and description are written; without tag_ids that is all
UpdateTagGroup(p) ==
    /\ reqs[p].at = "idle"
    /\ \E updates \in TagGroupUpdates :
         reqs' = [q \in Procs |->
            IF q # p
            THEN [reqs[q] EXCEPT !.alone = @ /\ (updates.nil \/ ~UnderWay(q))]
            ELSE IF updates.nil
            THEN TagRequest("UpdateTagGroup", "done", TagGroupId, updates, 0, 0, "",
                            getTagGroupMemberships(TagGroupId, tag_group_memberships), TRUE)
            ELSE TagRequest("UpdateTagGroup", "deleting", TagGroupId, updates, 0, 0, "",
                            updates.tag_ids, \A o \in Procs : ~UnderWay(o))]
    /\ UNCHANGED <<apart, tag_group_memberships, tag_descriptions>>

\* updateTagGroupMemberships: s.db.Exec(deleteQuery, *groupID)
DeleteMemberships(p) ==
    /\ reqs[p].op = "UpdateTagGroup" /\ reqs[p].at = "deleting"
    /\ tag_group_memberships' = WithoutMemberships(reqs[p].id, tag_group_memberships)
    /\ reqs' = [reqs EXCEPT ![p].at = IF Len(reqs[p].arg.tag_ids) = 0 THEN "done" ELSE "inserting",
                            ![p].i = 1]
    /\ UNCHANGED <<apart, tag_descriptions>>

\* updateTagGroupMemberships: one turn of the loop over tagIDs
InsertMembership(p) ==
    /\ reqs[p].op = "UpdateTagGroup" /\ reqs[p].at = "inserting"
    /\ tag_group_memberships' =
          WithMembership(reqs[p].id, reqs[p].arg.tag_ids[reqs[p].i], tag_group_memberships)
    /\ reqs' = [reqs EXCEPT ![p].at = IF reqs[p].i = Len(reqs[p].arg.tag_ids)
                                      THEN "done" ELSE "inserting",
                            ![p].i = @ + 1]
    /\ UNCHANGED <<apart, tag_descriptions>>

\* SetTagDescription: existing, err := s.GetTagDescription(desc.TagID)
ReadDescription(p) ==
    /\ reqs[p].at = "idle"
    /\ \E tagID \in DescribedTags, description \in Descriptions :
         reqs' = [reqs EXCEPT ![p] =
            TagRequest("SetTagDescription", "read", tagID, description, 0,
                       GetTagDescription(tagID, tag_descriptions), "", <<>>, TRUE)]
    /\ UNCHANGED <<apart, tag_group_memberships, tag_descriptions>>

\* SetTagDescription: the UPDATE when a row was found, else the INSERT
WriteDescription(p) ==
    /\ reqs[p].op = "SetTagDescription" /\ reqs[p].at = "read"
    /\ reqs[p].existing = 0 => Len(tag_descriptions) < MaxRows
    /\ LET done == IF reqs[p].existing # 0
                   THEN UpdateDescription(reqs[p].id, reqs[p].arg, tag_descriptions, engine)
                   ELSE InsertDescription(reqs[p].id, reqs[p].arg, tag_descriptions)
       IN  /\ tag_descriptions' = done.table
           /\ reqs' = [reqs EXCEPT ![p].at = "done", ![p].err = done.err,
                         ![p].i = IF done.err # "" THEN 0
                                  ELSE IF reqs[p].existing # 0 THEN reqs[p].existing
                                  ELSE Len(done.table)]
    /\ UNCHANGED <<apart, tag_group_memberships>>

\* DeleteTagDescription: DELETE FROM tag_descriptions WHERE tag_id = ?
DeleteTagDescription(p) ==
    /\ reqs[p].at = "idle"
    /\ \E tagID \in DescribedTags :
         /\ tag_descriptions' = [r \in DOMAIN tag_descriptions |->
                                   IF r \in RowsOfTag(tagID, tag_descriptions)
                                   THEN [tag_descriptions[r] EXCEPT !.gone = TRUE]
                                   ELSE tag_descriptions[r]]
         /\ reqs' = [reqs EXCEPT ![p] =
               TagRequest("DeleteTagDescription", "done", tagID, <<>>, 0, 0, "", <<>>, TRUE)]
    /\ UNCHANGED <<apart, tag_group_memberships>>

\* the response is sent and the request is over
TagReturn(p) ==
    /\ reqs[p].at = "done"
    /\ reqs' = [reqs EXCEPT ![p] = NoTagRequest]
    /\ UNCHANGED <<apart, tag_group_memberships, tag_descriptions>>

TagNext ==
    \/ \E p \in Procs : CallGetTagGroup(p)
    \/ \E p \in Procs : UpdateTagGroup(p)
    \/ \E p \in Procs : DeleteMemberships(p)
    \/ \E p \in Procs : InsertMembership(p)
    \/ \E p \in Procs : ReadDescription(p)
    \/ \E p \in Procs : WriteDescription(p)
    \/ \E p \in Procs : DeleteTagDescription(p)
    \/ \E p \in Procs : TagReturn(p)

TagSpec == TagInit /\ [][TagNext]_vars

(***************************** properties of the tag tables *****************)

\* the distinct elements of a list, ascending
DistinctAscending(list) == Ascending({list[i] : i \in DOMAIN list})

\* what GetTagGroup would return after this step
TagIDsAfter == getTagGroupMemberships(TagGroupId, tag_group_memberships')

\* the UpdateTagGroup of process p, with a tag list, ends in this step
Completes(p) == UnderWay(p) /\ reqs'[p].at = "done"

\* an UpdateTagGroup that no other overlapped leaves the distinct elements
\* of its list, ascending
AloneLeavesItsList ==
    \A p \in Procs : Completes(p) /\ reqs[p].alone => TagIDsAfter = DistinctAscending(reqs[p].arg.tag_ids)

\* when the second of two UpdateTagGroup calls ends, the group holds the
\* list of one of them
TwoLeaveOneList ==
    \A p, q \in Procs :
       (/\ p # q /\ Completes(p)
        /\ reqs[q].op = "UpdateTagGroup" /\ reqs[q].at = "done" /\ ~reqs[q].arg.nil)
       => TagIDsAfter \in {DistinctAscending(reqs[p].arg.tag_ids),
                           DistinctAscending(reqs[q].arg.tag_ids)}

\* C28: after UpdateTagGroup with tag list T, GetTagGroup returns the
\* distinct elements of T, ascending; and two concurrent UpdateTagGroup
\* calls with T1 and T2 leave the group with T1 or with T2, never a mixture
\* and never the empty set
C28_MembershipsAreOneList == [][AloneLeavesItsList /\ TwoLeaveOneList]_vars

\* the part of C28 that holds: an UpdateTagGroup that runs alone leaves its
\* list
C28_AloneLeavesItsList == [][AloneLeavesItsList]_vars

\* the part of C28 that holds: what GetTagGroup returns is ascending and
\* holds no tag twice
C28_DistinctAscending ==
    \A p \in Procs : reqs[p].op = "GetTagGroup" /\ reqs[p].at = "done" =>
       \A i, j \in DOMAIN reqs[p].got : i < j => reqs[p].got[i] < reqs[p].got[j]

\* at most one row of tag_descriptions per tag
OneRowPerTag == \A t \in DescribedTags : Cardinality(RowsOfTag(t, tag_descriptions)) <= 1

\* two SetTagDescription calls for one tag that both found no row have
\* both finished
BothInserted(p, q) ==
    /\ p # q
    /\ reqs[p].op = "SetTagDescription" /\ reqs[q].op = "SetTagDescription"
    /\ reqs[p].at = "done" /\ reqs[q].at = "done"
    /\ reqs[p].id = reqs[q].id
    /\ reqs[p].existing = 0 /\ reqs[q].existing = 0

\* C29: there is at most one row per tag_id in every state, and two
\* concurrent SetTagDescription calls for a tag without a row both return
\* success and leave one row holding one of the two descriptions
C29_Upsert ==
    /\ OneRowPerTag
    /\ \A p, q \in Procs : BothInserted(p, q) =>
          /\ reqs[p].err = "" /\ reqs[q].err = ""
          /\ \E r \in RowsOfTag(reqs[p].id, tag_descriptions) :
                tag_descriptions[r].description \in {reqs[p].arg, reqs[q].arg}

\* the part of C29 that holds: at most one row per tag_id in every state,
\* and a SetTagDescription that found a row and succeeded kept the row's id
C29_OneRowPerTag ==
    /\ OneRowPerTag
    /\ \A p \in Procs :
          (/\ reqs[p].op = "SetTagDescription" /\ reqs[p].at = "done"
           /\ reqs[p].existing # 0 /\ reqs[p].err = "")
          => reqs[p].i = reqs[p].existing

(***************************** properties of the builtin facet engine *******)

\* filterRulesJSON is given and is no JSON array of rule objects
InvalidFilter(text) == text.s # <<>> /\ UnmarshalRules(text).err

BuiltinDone == pc = "done" /\ call.op = "GetBuiltinFilterValues"

\* C6: when filterRulesJSON is malformed, GetBuiltinFilterValues returns no
\* error of the filter: its response is the one it gives for the same
\* filter type with no filter at all
C6_BuiltinFailOpen ==
    BuiltinDone /\ InvalidFilter(call.filterRulesJSON) =>
      /\ call.filterType \in FilterTypes => ret.err = "" /\ ~ret.panic
      /\ ret = GetBuiltinFilterValues(call.filterType, EmptyText, engine, docs, insts)

\* the rule type C10 states for each filter type
StatedRuleType(filterType) ==
    CASE filterType = "correspondent" -> 1
      [] filterType = "document_type" -> 2
      [] filterType = "tag" -> 3
      [] filterType = "storage_path" -> 4
      [] filterType = "owner" -> 5
      [] filterType = "asn" -> 8

\* the column the condition of a builtin rule of that type tests
TestedColumn(ruleType) ==
    CASE ruleType = 1 -> "correspondent_id"
      [] ruleType = 2 -> "document_type_id"
      [] ruleType = 3 -> "tag_id"
      [] ruleType = 4 -> "storage_path_id"
      [] ruleType = 5 -> "owner_id"
      [] ruleType = 8 -> "archive_serial_number"

\* the rules of the request whose type is not ruleType
RulesOfOtherTypes(ruleType) ==
    LET other(rule) == MapGet(rule, "rule_type") # JNum(ruleType)
    IN  SelectSeq(UnmarshalRules(call.filterRulesJSON).v, other)

Returned(op) == pc = "returned" /\ call.op = op

\* q is written as an operator node: its first element is "AND" or "OR"
IsOperatorNode(q) ==
    q.t = "arr" /\ Len(q.a) > 0 /\ q.a[1].t = "str" /\ q.a[1].s \in NodeOps

\* the children of an operator node; none when it has no child list
Children(q) == IF Len(q.a) >= 2 /\ q.a[2].t = "arr" THEN q.a[2].a ELSE <<>>

\* q is a leaf on field k
IsLeafOn(q, k) ==
    q.t = "arr" /\ ~IsOperatorNode(q) /\ Len(q.a) >= 3 /\ q.a[1] = JNum(k)

RECURSIVE Without(_, _, _)
\* the tree q with the leaves on field k and the nodes of junk taken out
Without(q, k, junk) ==
    IF IsLeafOn(q, k) \/ q \in junk THEN JNull
    ELSE IF IsOperatorNode(q) /\ Children(q) # <<>>
    THEN LET keep(c) == ~IsLeafOn(c, k) /\ c \notin junk
             kept == SelectSeq(Children(q), keep)
         IN  QNode(q.a[1].s, [i \in 1..Len(kept) |-> Without(kept[i], k, junk)])
    ELSE q

\* the condition c, alone in a WHERE clause, selects document d
AloneSelects(d, c) ==
    c.conditions = <<>>
    \/ Selects(<<WHERE>> \o c.conditions[1], c.args, d, 0, docs, insts)

RECURSIVE Contributes(_, _)
\* q, with the leaves on field k removed, still says something
Contributes(q, k) ==
    IF IsOperatorNode(q)
    THEN \E i \in 1..Len(Children(q)) : Contributes(Children(q)[i], k)
    ELSE q.t = "arr" /\ Leaf(q.a, k, 1, FALSE).conditions # <<>>

RECURSIVE Satisfies(_, _, _, _)
\* document d satisfies the tree q with the leaves on field k removed:
\* ["AND", children] is the conjunction and ["OR", children] the disjunction
\* of the children that say something
Satisfies(d, q, k, pg) ==
    IF IsOperatorNode(q)
    THEN IF q.a[1].s = sAND
         THEN \A i \in 1..Len(Children(q)) :
                 Contributes(Children(q)[i], k) => Satisfies(d, Children(q)[i], k, pg)
         ELSE \E i \in 1..Len(Children(q)) :
                 Contributes(Children(q)[i], k) /\ Satisfies(d, Children(q)[i], k, pg)
    ELSE AloneSelects(d, Leaf(q.a, k, 1, pg))

\* the rule carries a custom-field query
IsCustomRule(rule) ==
    /\ MapGet(rule, "rule_type") = JNum(FILTER_CUSTOM_FIELDS_QUERY)
    /\ MapGet(rule, "value").t = "str"
    /\ ~UnmarshalAny(MapGet(rule, "value")).err

QueryOf(rule) == UnmarshalAny(MapGet(rule, "value")).v

\* document d satisfies one rule of the list
SatisfiesRule(d, rule, k, pg) ==
    IF IsCustomRule(rule)
    THEN Contributes(QueryOf(rule), k) => Satisfies(d, QueryOf(rule), k, pg)
    ELSE AloneSelects(d, RuleConditions(rule, k, 1, pg))

SatisfiesRules(d, rules, k, pg) ==
    \A i \in 1..Len(rules) : SatisfiesRule(d, rules[i], k, pg)

\* the filter buildDocumentFilterQuery returned selects document d
FilterSelects(d, filter) ==
    filter.where = <<>> \/ Selects(filter.where, filter.args, d, 0, docs, insts)

\* C2: the documents the compiled WHERE clause selects are the documents
\* that satisfy the filter's trees (excluded leaves removed) read with AND
\* as the conjunction and OR as the disjunction of the children, at every
\* nesting depth; an AND node inside an OR node requires all its children
C2_TreeMeaning ==
    Returned("buildDocumentFilterQuery") /\ ~ret.panic /\ ~ret.err
    /\ BindOk(ret.where, ret.args) =>
      \A d \in DOMAIN docs :
         FilterSelects(d, ret) <=>
           SatisfiesRules(d, UnmarshalRules(call.filterRulesJSON).v, call.fieldID,
                          UsePostgres(engine))

\* C3: a leaf on the excluded field contributes nothing, wherever it sits:
\* no returned condition is built from field k, and conditions, parameters
\* and parameter index are those of the tree without the leaves on k
C3_SelfExclusion ==
    Returned("buildCustomFieldConditions") /\ ~ret.panic =>
      /\ \A i \in 1..Len(ret.conditions) : \A j \in 1..Len(ret.conditions[i]) :
            ret.conditions[i][j].f # call.fieldID
      /\ ret = buildCustomFieldConditions(Without(call.query, call.fieldID, {}), 0,
                                          call.startArgIndex, UsePostgres(engine))

\* field 2 is excluded from a tree that holds leaves on it at two depths,
\* and the leaf on field 1 beside them is compiled with its parameter
C3_Witness ==
    /\ Returned("buildCustomFieldConditions")
    /\ call.fieldID = 2
    /\ call.query = QNode(sAND, <<QNode(sOR, <<QNode(sAND, <<I1, I2>>), E2>>), I2>>)
    /\ Len(ret.conditions) = 1
    /\ ret.args = <<GoStr(<<"A">>)>>
    /\ ret.argIndex = call.startArgIndex + 1

\* C7: for every value of a rule of type 42, buildCustomFieldConditions
\* returns normally, and a malformed node contributes no condition and no
\* parameter
C7_MalformedNeverFaults ==
    Returned("buildCustomFieldConditions") =>
      /\ ~ret.panic
      /\ ret = buildCustomFieldConditions(Without(call.query, 0, MalformedNodes),
                                          call.fieldID, call.startArgIndex,
                                          UsePostgres(engine))

\* q is an in leaf with operands
IsInLeaf(q) ==
    /\ q.t = "arr" /\ Len(q.a) >= 3
    /\ q.a[1].t = "num" /\ q.a[2] = JStr(sIn)
    /\ q.a[3].t = "arr" /\ Len(q.a[3].a) > 0

\* extra_data.select_options of a select field
OptionsOf(f) ==
    IF f \in FieldIds /\ documents_customfield[f].data_type = "select"
    THEN MapGet(documents_customfield[f].extra_data.a[1], "select_options").a
    ELSE <<>>

\* the options of field f whose label is the text
OptionsLabelled(f, text) ==
    {i \in 1..Len(OptionsOf(f)) : MapGet(OptionsOf(f)[i], "label") = JStr(text)}

\* m[text] of the label -> id map of a select field, text when m has no
\* such label or the field is no select field
IdOrSelf(f, text) ==
    IF OptionsLabelled(f, text) = {} THEN text
    ELSE MapGet(OptionsOf(f)[CHOOSE i \in OptionsLabelled(f, text) :
                                \A j \in OptionsLabelled(f, text) : j <= i], "id").s

\* the parameter of operand x as C9 states it: m[x] for a label, else x
StatedParameter(f, x) == IF x.t = "str" THEN GoStr(IdOrSelf(f, x.s)) ELSE x

\* the parameter of operand x from the text fmt's %v prints for it
PrintedParameter(f, x) == GoStr(IdOrSelf(f, Sprintv(x)))

InLeafReturned ==
    /\ Returned("buildCustomFieldConditions")
    /\ IsInLeaf(call.query)
    /\ call.query.a[1].n # call.fieldID

\* C9 as stated: each operand x of an in leaf yields one parameter, in
\* operand order: m[x] when the field is a select field and x a label of
\* its label -> id map m, otherwise x unchanged
C9_OperandsUnchanged ==
    InLeafReturned =>
      ret.args = [i \in 1..Len(call.query.a[3].a) |->
                    StatedParameter(call.query.a[1].n, call.query.a[3].a[i])]

\* C9 (amended): each operand x of an in leaf yields one parameter, in
\* operand order: with s the text fmt's %v prints for x (x itself for a
\* string), m[s] when the field is a select field and s a label of m,
\* otherwise s; one placeholder is written per operand
C9_OperandsMapped ==
    InLeafReturned =>
      /\ ret.args = [i \in 1..Len(call.query.a[3].a) |->
                       PrintedParameter(call.query.a[1].n, call.query.a[3].a[i])]
      /\ Len(ret.conditions) = 1
      /\ Len(Placeholders(ret.conditions[1])) = Len(call.query.a[3].a)
      /\ ret.argIndex = call.startArgIndex + Len(call.query.a[3].a)

\* the operands "F" (a label) and "y" (an id) of an in leaf on the select
\* field came back as the option ids x and y
C9_Witness ==
    /\ InLeafReturned
    /\ call.query = I2
    /\ ret.args = <<GoStr(<<"x">>), GoStr(<<"y">>)>>

RECURSIVE Flatten(_)
Flatten(seqs) == IF Len(seqs) = 0 THEN <<>> ELSE seqs[1] \o Flatten(Tail(seqs))

RECURSIVE Operands(_, _)
\* the operands of the in leaves of q outside field k, left to right, as
\* the parameters they are bound as
Operands(q, k) ==
    IF IsOperatorNode(q)
    THEN Flatten([i \in 1..Len(Children(q)) |-> Operands(Children(q)[i], k)])
    ELSE IF IsInLeaf(q) /\ q.a[1].n # k
    THEN [i \in 1..Len(q.a[3].a) |-> PrintedParameter(q.a[1].n, q.a[3].a[i])]
    ELSE <<>>

\* the operands of a rule list, rule by rule
RuleOperands(rules, k) ==
    Flatten([i \in 1..Len(rules) |->
               IF IsCustomRule(rules[i]) THEN Operands(QueryOf(rules[i]), k)
               ELSE RuleConditions(rules[i], k, 1, FALSE).args])

\* the placeholders of the text are $1..$n with Postgres, n times ? otherwise
Numbered(where, n, pg) == Placeholders(where) = [i \in 1..n |-> IF pg THEN i ELSE 0]

\* C8: the WHERE clause and the arguments buildDocumentFilterQuery returns
\* are aligned: its placeholders are $1..$n (or n times ?) for n arguments,
\* argument i being the operand of placeholder i; GetValueCounts binds the
\* field id as placeholder n+1, and each statement has as many placeholders
\* as arguments
C8_PlaceholdersAligned ==
    /\ Returned("buildDocumentFilterQuery") /\ ~ret.panic /\ ~ret.err =>
         /\ Numbered(ret.where, Len(ret.args), UsePostgres(engine))
         /\ ret.args = RuleOperands(UnmarshalRules(call.filterRulesJSON).v, call.fieldID)
    /\ pc = "built" =>
         \A stmt \in {loc.valueQuery, loc.blankQuery} :
            /\ stmt.args = loc.docFilter.args \o <<JNum(call.fieldID)>>
            /\ Numbered(stmt.where, Len(stmt.args), UsePostgres(engine))

\* the rule is an is-in-inbox rule
IsInboxRule(rule) == MapGet(rule, "rule_type") = JNum(FILTER_IS_IN_INBOX)

\* the places of the inbox test in a WHERE clause
InboxTests(where) == {i \in DOMAIN where : where[i].k = "doc_inbox"}

\* the WHERE clause holds one constant inbox test per is-in-inbox rule of
\* the list, and a list of such rules alone binds no parameter
InboxTestPerRule(rules) ==
    /\ Cardinality(InboxTests(ret.where))
         = Cardinality({i \in DOMAIN rules : IsInboxRule(rules[i])})
    /\ \A i \in InboxTests(ret.where) : ret.where[i].ph = <<>> /\ ret.where[i].lit = <<>>
    /\ (\A i \in DOMAIN rules : IsInboxRule(rules[i])) => ret.args = <<>>

\* C18: a rule with rule_type 9 always contributes the constant inbox test
\* and no parameter, whatever its value field holds, also when the value is
\* absent or is no string
C18_InboxAlwaysEmitted ==
    Returned("buildDocumentFilterQuery") /\ ~ret.panic /\ ~ret.err =>
      InboxTestPerRule(UnmarshalRules(call.filterRulesJSON).v)

\* the same for the lists whose is-in-inbox rules all carry a string value
C18_InboxEmittedForStrings ==
    /\ Returned("buildDocumentFilterQuery") /\ ~ret.panic /\ ~ret.err
    /\ \A i \in DOMAIN UnmarshalRules(call.filterRulesJSON).v :
          IsInboxRule(UnmarshalRules(call.filterRulesJSON).v[i]) =>
            MapGet(UnmarshalRules(call.filterRulesJSON).v[i], "value").t = "str"
    => InboxTestPerRule(UnmarshalRules(call.filterRulesJSON).v)

\* the operand put in the place of every operand of a filter
CanonOperand == JStr(<<"0">>)

RECURSIVE NormalQuery(_)
\* the tree q with every operand of its exists, isnull and in leaves
\* replaced: same shape, same fields, same operators, same operand counts
NormalQuery(q) ==
    IF IsOperatorNode(q)
    THEN IF Len(q.a) >= 2 /\ q.a[2].t = "arr"
         THEN [q EXCEPT !.a[2] = JArr([i \in DOMAIN q.a[2].a |-> NormalQuery(q.a[2].a[i])])]
         ELSE q
    ELSE IF q.t = "arr" /\ Len(q.a) >= 3 /\ q.a[2].t = "str"
    THEN IF q.a[2].s \in {sExists, sIsNull} THEN [q EXCEPT !.a[3] = CanonOperand]
         ELSE IF q.a[2].s = sIn /\ q.a[3].t = "arr"
         THEN [q EXCEPT !.a[3] = JArr([i \in DOMAIN q.a[3].a |-> CanonOperand])]
         ELSE q
    ELSE q

\* the rule with its operand replaced
NormalRule(rule) ==
    LET ruleType == MapGet(rule, "rule_type")
        value == MapGet(rule, "value")
    IN  IF ruleType.t # "num" \/ value.t # "str" THEN rule
        ELSE IF ruleType.n \in FILTER_CORRESPONDENT..FILTER_IS_IN_INBOX
        THEN Rule(ruleType.n, CanonOperand)
        ELSE IF ruleType.n = FILTER_CUSTOM_FIELDS_QUERY /\ ~UnmarshalAny(value).err
        THEN CustomRule(NormalQuery(UnmarshalAny(value).v))
        ELSE rule

\* the filter with the operands of all its rules replaced
NormalText(text) ==
    LET rules == UnmarshalRules(text).v IN
    RulesText([i \in DOMAIN rules |-> NormalRule(rules[i])])

RECURSIVE HasNoBoundaryLeaf(_)
\* no leaf of the tree q has the operator range, gte or lte
HasNoBoundaryLeaf(q) ==
    IF IsOperatorNode(q)
    THEN \A i \in DOMAIN Children(q) : HasNoBoundaryLeaf(Children(q)[i])
    ELSE ~(q.t = "arr" /\ Len(q.a) >= 3 /\ q.a[2].t = "str"
           /\ q.a[2].s \in {sRange, sGte, sLte})

\* the rule is {rule_type: int, value: string} with a builtin type, or with
\* type 42 and a tree whose leaves are exists, isnull or in leaves
IsPlainRule(rule) ==
    LET ruleType == MapGet(rule, "rule_type")
        value == MapGet(rule, "value")
    IN  /\ ruleType.t = "num" /\ value.t = "str"
        /\ \/ ruleType.n \in FILTER_CORRESPONDENT..FILTER_IS_IN_INBOX
           \/ /\ ruleType.n = FILTER_CUSTOM_FIELDS_QUERY
              /\ ~UnmarshalAny(value).err => HasNoBoundaryLeaf(UnmarshalAny(value).v)

IsPlainFilter(text) ==
    /\ text.s # <<>>
    /\ ~UnmarshalRules(text).err
    /\ \A i \in DOMAIN UnmarshalRules(text).v : IsPlainRule(UnmarshalRules(text).v[i])

\* the client values printed into a text are boundaries of range, gte and
\* lte conditions, which hold no placeholder
OnlyBoundariesPrinted(tokens) ==
    \A i \in DOMAIN tokens :
       /\ tokens[i].lit # <<>> => tokens[i].k \in {"cf_range", "cf_gte", "cf_lte"}
       /\ tokens[i].k \in {"cf_range", "cf_gte", "cf_lte"} => tokens[i].ph = <<>>

\* the query of the call is a leaf with the operator range, gte or lte
IsBoundaryLeaf(q) ==
    /\ q.t = "arr" /\ ~IsOperatorNode(q) /\ Len(q.a) >= 3
    /\ q.a[2].t = "str" /\ q.a[2].s \in {sRange, sGte, sLte}

\* C19: the WHERE clause of a filter of builtin rules and of exists, isnull
\* and in leaves is the WHERE clause of the same filter with every operand
\* replaced, and binds as many parameters: the text depends on rule types,
\* field ids, tree shape and operand counts only.  The only client values
\* printed into a text are the boundaries of range, gte and lte leaves, and
\* those leaves add no parameter
C19_TextIndependentOfOperands ==
    /\ Returned("buildDocumentFilterQuery") /\ ~ret.panic /\ ~ret.err =>
         /\ OnlyBoundariesPrinted(ret.where)
         /\ IsPlainFilter(call.filterRulesJSON) =>
              /\ ret.where = buildDocumentFilterQuery(NormalText(call.filterRulesJSON),
                                                      call.fieldID, engine).where
              /\ Len(ret.args) = Len(buildDocumentFilterQuery(
                                       NormalText(call.filterRulesJSON),
                                       call.fieldID, engine).args)
    /\ Returned("buildCustomFieldConditions") /\ ~ret.panic =>
         /\ OnlyBoundariesPrinted(Flatten(ret.conditions))
         /\ IsBoundaryLeaf(call.query) =>
              ret.args = <<>> /\ ret.argIndex = call.startArgIndex

\* a correspondent rule and an in leaf with two operands on the select
\* field: the text is that of the filter with the operands replaced, and
\* the three parameters are not those of that filter
C19_Witness ==
    /\ Returned("buildDocumentFilterQuery")
    /\ call.filterRulesJSON = RulesText(<<CorrespondentRule, CustomRule(I2)>>)
    /\ call.fieldID = 1
    /\ IsPlainFilter(call.filterRulesJSON)
    /\ Len(ret.args) = 3
    /\ \E i \in DOMAIN ret.where : ret.where[i].k = "cf_in" /\ Len(ret.where[i].ph) = 2
    /\ ret.args # buildDocumentFilterQuery(NormalText(call.filterRulesJSON),
                                           call.fieldID, engine).args

(***************************** properties of the facet engine **************)

\* a facet operation has returned a list of facets
Answered(ops) == pc = "done" /\ call.op \in ops /\ ~ret.panic /\ ret.err = ""

FacetOps == {"GetFieldValues", "GetValueCounts"}

\* the instance of field f on document d is live and holds a value
HasLiveValue(d, f) == insts[<<d, f>>].st = "live" /\ ~insts[<<d, f>>].isnull

\* the documents with a live instance of f whose raw value decomposes to a
\* list containing v
DocumentsWith(f, v) ==
    {d \in DocIds : HasLiveValue(d, f) /\ v \in PartsOf(insts[<<d, f>>].value)}

\* the atomic values of field f in the dataset
AtomicValues(f) == UNION {PartsOf(insts[<<d, f>>].value) : d \in DocIds}

\* the documents a request counts over: every document when the request has
\* no WHERE clause of a filter, else the non-deleted documents it selects
Counted ==
    IF loc.docFilter.where = <<>> THEN DocIds
    ELSE {d \in DocIds : /\ ~docs[d].deleted
                         /\ Selects(loc.docFilter.where, loc.docFilter.args,
                                    d, 0, docs, insts)}

\* the id and the label the operations give the facet of the atomic value v
IsFacetOf(facet, f, v) ==
    LET field == documents_customfield[f]
        hit == MapLookup(SelectOptions(field.data_type, field.extra_data), v)
    IN  IF field.data_type = "select"
        THEN facet.id = v /\ facet.label = (IF hit.found THEN hit.v ELSE v)
        ELSE facet.id = generateID(v) /\ facet.label = v

\* the facet of every atomic value counts the documents of scope that hold it
CountsDocuments(scope) ==
    \A v \in AtomicValues(call.fieldID) :
       LET n == Cardinality(DocumentsWith(call.fieldID, v) \cap scope)
           mine == {i \in DOMAIN ret.values : IsFacetOf(ret.values[i], call.fieldID, v)}
       IN  /\ n > 0 => mine # {}
           /\ \A i \in mine : ret.values[i].count = n

\* C1 as stated: in GetFieldValues and GetValueCounts the count of the facet
\* of an atomic value v is the number of distinct documents with a live
\* instance of the field whose value decomposes to a list containing v,
\* whatever the request
C1_CountOverAllDocuments == Answered(FacetOps) => CountsDocuments(DocIds)

\* C1 (amended): in GetFieldValues and GetValueCounts the count of the facet
\* of an atomic value v is the number of distinct documents, among those the
\* request counts over (all documents without a filter, the non-deleted
\* documents satisfying the compiled filter with one), that have a live
\* instance of the field whose value decomposes to a list containing v; a
\* value repeated inside one document's value counts once
C1_FacetCountIsDocumentCount == Answered(FacetOps) => CountsDocuments(Counted)

\* document 1 holds "A,A,B", document 2 holds " A", and the facet of A
\* counts 2 while the facet of B counts 1
C1_Witness ==
    /\ Answered(FacetOps)
    /\ call.fieldID = 1
    /\ insts[<<1, 1>>] = LiveRow(<<"A", ",", "A", ",", "B">>)
    /\ insts[<<2, 1>>] = LiveRow(<<" ", "A">>)
    /\ \E i, j \in DOMAIN ret.values :
          /\ ret.values[i].label = <<"A">> /\ ret.values[i].count = 2
          /\ ret.values[j].label = <<"B">> /\ ret.values[j].count = 1

\* the documents of the blank bucket: non-deleted, satisfying the compiled
\* filter if any, without a live instance of the field with a non-null,
\* non-empty value
BlankDocuments ==
    {d \in DocIds :
       /\ ~docs[d].deleted
       /\ loc.docFilter.where # <<>> =>
            Selects(loc.docFilter.where, loc.docFilter.args, d, 0, docs, insts)
       /\ ~(HasLiveValue(d, call.fieldID) /\ insts[<<d, call.fieldID>>].value # <<>>)}

BlankFacets == {i \in DOMAIN ret.values : ret.values[i].id = sBlankId}

\* the blank facet is there exactly when there are blank documents, and it
\* counts them
BlankBucketCountsBlankDocuments ==
    LET B == Cardinality(BlankDocuments)
        blanks == {i \in BlankFacets : ret.values[i].label = sBlankLabel}
    IN  /\ B > 0 <=> blanks # {}
        /\ \A i \in blanks : ret.values[i].count = B

\* C4: the response holds a facet with id "__blank__" and label "(Blank)"
\* exactly when the number B of blank documents is positive, that facet
\* counts B, and no response holds two facets with id "__blank__"
C4_OneBlankBucket ==
    Answered(FacetOps) =>
      /\ BlankBucketCountsBlankDocuments
      /\ Cardinality(BlankFacets) <= 1

\* the part of C4 about the synthetic facet alone
C4_BlankBucketOnly == Answered(FacetOps) => BlankBucketCountsBlankDocuments

\* C5: when filterRulesJSON is not a valid JSON array of rule objects,
\* GetValueCounts returns no error of the filter: its response is one it
\* gives for the same field and sort parameters with no filter at all
C5_FailOpen ==
    pc = "done" /\ call.op = "GetValueCounts" /\ InvalidFilter(call.filterRulesJSON) =>
      /\ call.fieldID \in FieldIds => ret.err = "" /\ ~ret.panic
      /\ ret \in GetValueCounts(call.fieldID, EmptyText, call.sortBy, call.sortOrder,
                                call.ignoreCase, engine, docs, insts)

\* a request with an undecodable filter was answered with the facet of a
\* stored value
C5_Witness ==
    /\ Answered({"GetValueCounts"})
    /\ InvalidFilter(call.filterRulesJSON)
    /\ \E i \in DOMAIN ret.values : ret.values[i].id # sBlankId

\* every response the operation of the request can give on the dataset
PossibleResponses ==
    IF call.op = "GetValueCounts"
    THEN GetValueCounts(call.fieldID, call.filterRulesJSON, call.sortBy, call.sortOrder,
                        call.ignoreCase, engine, docs, insts)
    ELSE GetFieldValues(call.fieldID, call.sortBy, call.sortOrder, call.ignoreCase,
                        engine, docs, insts)

\* C13: two calls of GetFieldValues, or of GetValueCounts, with the same
\* arguments on an unchanged dataset return the same response, the order of
\* the values included: the response given is the only one the call can give
C13_Deterministic == pc = "done" /\ call.op \in FacetOps => PossibleResponses = {ret}

\* l has q as a substring
HasSubstring(l, q) ==
    \E i \in 0..Len(l) :
       i + Len(q) <= Len(l) /\ \A j \in 1..Len(q) : l[i + j] = q[j]

\* the places of the facets of values whose label contains q, compared
\* case-insensitively iff ignoreCase
PlacesContaining(values, q, ignoreCase) ==
    {i \in DOMAIN values :
       IF ignoreCase THEN HasSubstring(ToLower(values[i].label), ToLower(q))
       ELSE HasSubstring(values[i].label, q)}

\* the k-th smallest element of a set of numbers
Kth(places, k) == CHOOSE i \in places : Cardinality({j \in places : j <= i}) = k

Searched == pc = "done" /\ call.op = "SearchFieldValues"

\* C15: SearchFieldValues returns the facets of GetFieldValues(...).Values
\* whose label contains q as a substring, case-insensitively iff
\* ignoreCase, in the order they have there and with their counts; an
\* error of GetFieldValues is returned as it is
C15_SearchFiltersValues ==
    Searched =>
      IF loc.response.err # "" THEN ret.err = loc.response.err /\ ret.values = <<>>
      ELSE /\ ret.err = ""
           /\ ret.values =
                [k \in 1..Cardinality(PlacesContaining(loc.response.values, call.query.s,
                                                       call.ignoreCase)) |->
                   loc.response.values[Kth(PlacesContaining(loc.response.values,
                                                            call.query.s,
                                                            call.ignoreCase), k)]]

\* a search for "a" without regard to case kept the facet of A and dropped
\* the facet of B
C15_Witness ==
    /\ Searched
    /\ call.query.s = <<"a">> /\ call.ignoreCase
    /\ \E i \in DOMAIN ret.values : ret.values[i].label = <<"A">>
    /\ \E i \in DOMAIN loc.response.values : loc.response.values[i].label = <<"B">>
    /\ \A i \in DOMAIN ret.values : ret.values[i].label # <<"B">>

\* C16: when no custom field has the given id, GetFieldValues and
\* GetValueCounts return an error and no value list
C16_MissingFieldIsAnError ==
    pc = "done" /\ call.op \in FacetOps /\ call.fieldID \notin FieldIds =>
      ret.err # "" /\ ~ret.panic /\ ret.values = <<>>

\* GetFieldValues was asked for a field that does not exist
C16_Witness ==
    /\ pc = "done"
    /\ call.op = "GetFieldValues"
    /\ call.fieldID = MissingFieldId
    /\ ret.err = "custom field not found"

\* the documents of the dataset that are not soft-deleted
LiveDocuments == {d \in DocIds : ~docs[d].deleted}

\* C21: total_documents of a GetFieldValues response is the number of
\* documents of the whole dataset with deleted_at NULL, whatever the field
\* and its values are
C21_TotalIsLiveDocuments ==
    Answered({"GetFieldValues"}) => ret.total_documents = Cardinality(LiveDocuments)

\* document 1 is soft-deleted and holds a value of field 1, document 2 has
\* no instance at all, and the total is 1
C21_Witness ==
    /\ Answered({"GetFieldValues"})
    /\ call.fieldID = 1
    /\ docs[1].deleted /\ ~docs[2].deleted
    /\ HasLiveValue(1, 1)
    /\ ret.total_documents = 1

\* the lists of facets GetFieldValues can return for the field and the sort
\* parameters of the call on the dataset as it is
FieldValuesLists ==
    {r.values : r \in GetFieldValues(call.fieldID, call.sortBy, call.sortOrder,
                                     call.ignoreCase, engine, docs, insts)}

\* C22: with filterRulesJSON empty or "[]", GetValueCounts returns, for
\* every field and every sortBy, sortOrder (empty ones included) and
\* ignoreCase, the sequence of facets GetFieldValues(...).Values is on the
\* same dataset
C22_UnfilteredCountsAreFieldValues ==
    /\ Answered({"GetValueCounts"})
    /\ call.filterRulesJSON \in {EmptyText, EmptyArrayText}
    => ret.values \in FieldValuesLists

\* the same when sortOrder is given, or sortBy is left empty
C22_SameWhenOrderGiven ==
    /\ Answered({"GetValueCounts"})
    /\ call.filterRulesJSON \in {EmptyText, EmptyArrayText}
    /\ call.sortOrder # <<>> \/ call.sortBy = <<>>
    => ret.values \in FieldValuesLists

\* the non-deleted documents a request is about: all of them, or with a
\* compiled filter those it selects
LiveScope ==
    {d \in DocIds :
       /\ ~docs[d].deleted
       /\ loc.docFilter.where # <<>> =>
            Selects(loc.docFilter.where, loc.docFilter.args, d, 0, docs, insts)}

\* the response counts document d in its blank bucket
InBlankBucket(d) ==
    /\ d \in BlankDocuments
    /\ \E i \in BlankFacets : ret.values[i].label = sBlankLabel

\* the response counts document d in the facet of one of its atomic values
InValueFacet(d) ==
    \E v \in AtomicValues(call.fieldID) :
       /\ d \in DocumentsWith(call.fieldID, v)
       /\ \E i \in DOMAIN ret.values :
            IsFacetOf(ret.values[i], call.fieldID, v) /\ ret.values[i].count > 0

\* C24: in a response of GetFieldValues or GetValueCounts every non-deleted
\* document (satisfying the filter, if there is one) is counted in the blank
\* bucket or in at least one value facet, and never in both
C24_BlankOrValue ==
    Answered(FacetOps) => \A d \in LiveScope : InBlankBucket(d) # InValueFacet(d)

\* the half of C24 that holds: no document is counted in both
C24_NeverInBoth ==
    Answered(FacetOps) => \A d \in LiveScope : ~(InBlankBucket(d) /\ InValueFacet(d))

\* the soft-deleted documents that hold a live, non-empty instance of f
DeletedHolders(f) ==
    {d \in DocIds : docs[d].deleted /\ HasLiveValue(d, f) /\ insts[<<d, f>>].value # <<>>}

\* every facet of the response counts between 1 and most
CountsWithin1And(most) ==
    \A i \in DOMAIN ret.values : ret.values[i].count >= 1 /\ ret.values[i].count <= most

\* C25 as stated: in every GetFieldValues response the count of every facet,
\* value facet or blank bucket, is at least 1 and at most total_documents
C25_CountAtMostTotal ==
    Answered({"GetFieldValues"}) => CountsWithin1And(ret.total_documents)

\* C25 (amended): in every GetFieldValues response the count of every facet
\* is at least 1; the blank bucket counts at most total_documents, and a
\* value facet counts at most total_documents plus the number of
\* soft-deleted documents that hold a live, non-empty instance of the field
C25_CountAtMostTotalAndDeletedHolders ==
    Answered({"GetFieldValues"}) =>
      /\ CountsWithin1And(ret.total_documents + Cardinality(DeletedHolders(call.fieldID)))
      /\ \A i \in BlankFacets :
            ret.values[i].label = sBlankLabel => ret.values[i].count <= ret.total_documents

\* documents 1 and 2 hold "A" in field 1, document 1 is soft-deleted: the
\* facet of A counts 2 and total_documents is 1
C25_Witness ==
    /\ Answered({"GetFieldValues"})
    /\ call.fieldID = 1
    /\ docs[1].deleted /\ ~docs[2].deleted
    /\ ret.total_documents = 1
    /\ \E i \in DOMAIN ret.values : ret.values[i].label = <<"A">> /\ ret.values[i].count = 2

\* the facets of the response that stand for an atomic value of the field
ValueFacets ==
    {i \in DOMAIN ret.values :
       \E v \in AtomicValues(call.fieldID) : IsFacetOf(ret.values[i], call.fieldID, v)}

\* C26: within one response no two facets have the same id, and no facet
\* of an atomic value has the id "__blank__" of the blank bucket
C26_IdsIdentifyFacets ==
    Answered(FacetOps) =>
      /\ \A i, j \in DOMAIN ret.values : ret.values[i].id = ret.values[j].id => i = j
      /\ \A i \in ValueFacets : ret.values[i].id # sBlankId

\* the part of C26 that holds in the datasets checked: the facets of a
\* field that is not a select field have different ids, none of them
\* "__blank__" but the blank bucket's
C26_IdsOfHashedValues ==
    Answered(FacetOps) /\ documents_customfield[call.fieldID].data_type # "select" =>
      /\ \A i, j \in DOMAIN ret.values : ret.values[i].id = ret.values[j].id => i = j
      /\ \A i \in ValueFacets : ret.values[i].id # sBlankId

(***************************** properties of the helpers ********************)

Sorted == pc = "done" /\ call.op = "sortValues"

\* the label as the comparison reads it
LabelKey(label) == IF call.ignoreCase THEN ToLower(label) ELSE label

\* the output holds the facets of the input, each as often as the input
IsPermutation(out, in) ==
    /\ Len(out) = Len(in)
    /\ \A i \in DOMAIN in :
          Cardinality({j \in DOMAIN out : out[j] = in[i]})
          = Cardinality({j \in DOMAIN in : in[j] = in[i]})

\* x may stand before y by count in the stated order
CountInOrder(x, y) ==
    IF call.sortOrder = sAsc THEN x.count <= y.count ELSE x.count >= y.count

\* x may stand before y by label in the stated order
LabelInOrder(x, y) ==
    IF call.sortOrder = sAsc THEN StrLE(LabelKey(x.label), LabelKey(y.label))
    ELSE StrLE(LabelKey(y.label), LabelKey(x.label))

\* C11: sortValues with sortBy = count returns the facets of its input
\* ordered by count, ascending when sortOrder = asc and descending
\* otherwise, and two facets of equal count stand in ascending label order
\* for both sort orders, labels compared case-insensitively iff ignoreCase
C11_SortByCount ==
    Sorted /\ call.sortBy = sCount =>
      /\ IsPermutation(ret.values, loc.values)
      /\ \A i, j \in DOMAIN ret.values :
            i < j => /\ CountInOrder(ret.values[i], ret.values[j])
                     /\ ret.values[i].count = ret.values[j].count =>
                          StrLE(LabelKey(ret.values[i].label),
                                LabelKey(ret.values[j].label))

\* [{A,5},{B,5},{C,3}] sorted by count descending is [A,B,C]
C11_Witness ==
    /\ Sorted
    /\ call.sortBy = sCount /\ call.sortOrder = sDesc /\ ~call.ignoreCase
    /\ loc.values = ExampleValues
    /\ [i \in DOMAIN ret.values |-> ret.values[i].label] = << <<"A">>, <<"B">>, <<"C">> >>

\* C12: sortValues with sortBy = label returns the facets of its input
\* ordered by label, ascending when sortOrder = asc and descending when
\* desc, case-insensitively iff ignoreCase, and two facets whose labels
\* compare equal stand in ascending count order
C12_SortByLabel ==
    Sorted /\ call.sortBy = sLabel /\ call.sortOrder \in {sAsc, sDesc} =>
      /\ IsPermutation(ret.values, loc.values)
      /\ \A i, j \in DOMAIN ret.values :
            i < j => /\ LabelInOrder(ret.values[i], ret.values[j])
                     /\ LabelKey(ret.values[i].label) = LabelKey(ret.values[j].label) =>
                          ret.values[i].count <= ret.values[j].count

\* what the code does on equal labels: the greater count stands first
C12_EqualLabelsByCountDescending ==
    Sorted /\ call.sortBy = sLabel /\ call.sortOrder \in {sAsc, sDesc} =>
      /\ IsPermutation(ret.values, loc.values)
      /\ \A i, j \in DOMAIN ret.values :
            i < j => /\ LabelInOrder(ret.values[i], ret.values[j])
                     /\ LabelKey(ret.values[i].label) = LabelKey(ret.values[j].label) =>
                          ret.values[i].count >= ret.values[j].count

\* [{A,1},{A,2}] sorted by label ascending is [{A,2},{A,1}]
C12_Witness ==
    /\ Sorted
    /\ call.sortBy = sLabel /\ call.sortOrder = sAsc
    /\ loc.values = <<Facet(generateID(<<"A">>), <<"A">>, 1),
                      Facet(generateID(<<"A">>), <<"A">>, 2)>>
    /\ ret.values = <<Facet(generateID(<<"A">>), <<"A">>, 2),
                      Facet(generateID(<<"A">>), <<"A">>, 1)>>

Parsed == pc = "done" /\ call.op = "parseValueList"

\* no element is empty
NoEmptyElement(parts) == \A i \in DOMAIN parts : parts[i] # <<>>

\* no element begins or ends with whitespace
NoOuterWhitespace(parts) ==
    \A i \in DOMAIN parts :
       parts[i] # <<>> => ~IsSpace(parts[i][1]) /\ ~IsSpace(parts[i][Len(parts[i])])

\* the characters of the elements, one after the other
RECURSIVE Concat(_)
Concat(parts) == IF Len(parts) = 0 THEN <<>> ELSE parts[1] \o Concat(Tail(parts))

\* value without the characters the elements are split on
WithoutSeparators(value) ==
    LET kept(c) == c \notin {",", ":", ";"} IN SelectSeq(value, kept)

\* the number of places where an element begins: a character that is no
\* separator at the start of value or after a separator
Starts(value) ==
    Cardinality({i \in DOMAIN value :
                   /\ value[i] \notin {",", ":", ";"}
                   /\ (i = 1 \/ value[i - 1] \in {",", ":", ";"})})

\* the elements are the pieces of value between ',', ':' and ';'
SplitsOnSeparators(value, parts) ==
    /\ Concat(parts) = WithoutSeparators(value)
    /\ Len(parts) = Starts(value)
    /\ \A i \in DOMAIN parts : \A j \in DOMAIN parts[i] :
          parts[i][j] \notin {",", ":", ";"}

\* C14 as stated: parseValueList(v) splits v on ',', ':' and ';', holds no
\* empty string, and no element of it begins or ends with whitespace
C14_ParsedIsTrimmed ==
    Parsed =>
      /\ SplitsOnSeparators(loc.value, ret.parts)
      /\ NoEmptyElement(ret.parts)
      /\ NoOuterWhitespace(ret.parts)

\* C14 (amended): parseValueList(v) splits v on ',', ':' and ';' and holds
\* no empty string; its elements keep their outer whitespace, and the keys
\* the callers record from them, each element trimmed and dropped when
\* nothing is left, hold no empty string and no outer whitespace
C14_RecordedPartsAreTrimmed ==
    Parsed =>
      /\ SplitsOnSeparators(loc.value, ret.parts)
      /\ NoEmptyElement(ret.parts)
      /\ PartsOf(loc.value) = {TrimSpace(ret.parts[i]) : i \in DOMAIN ret.parts} \ {<<>>}
      /\ \A part \in PartsOf(loc.value) :
            part # <<>> /\ ~IsSpace(part[1]) /\ ~IsSpace(part[Len(part)])

\* " A, ;A" is split into " A" and " ", and the one key recorded is "A"
C14_Witness ==
    /\ Parsed
    /\ loc.value = <<" ", "A", ",", " ">>
    /\ ret.parts = << <<" ", "A">>, <<" ">> >>
    /\ PartsOf(loc.value) = {<<"A">>}

(***************************** properties of the statements *****************)

\* the facets of values count, for every atomic value of field f in the
\* database as it is now, the documents of scope that hold it
FacetsCount(values, f, scope) ==
    \A v \in AtomicValues(f) :
       LET n == Cardinality(DocumentsWith(f, v) \cap scope)
           mine == {i \in DOMAIN values : IsFacetOf(values[i], f, v)}
       IN  /\ n > 0 => mine # {}
           /\ \A i \in mine : values[i].count = n

\* values with the blank option of the blank documents of the database as
\* it is now
WithBlankDocuments(values) ==
    IF BlankDocuments # {}
    THEN Append(values, Facet(sBlankId, sBlankLabel, Cardinality(BlankDocuments)))
    ELSE values

\* C17: the metadata fetch, the value query, the blank-count query and the
\* total of GetFieldValues are separate statements sent in that order with
\* nothing holding the database between them: the value facets count the
\* documents as they are when the value query runs, the blank option counts
\* them as they are when the blank-count query runs and leaves the value
\* facets as they were, so that a write committed between the two is seen by
\* one of them only
C17_SeparateStatements ==
    [][/\ pc' = "values" /\ pc # "values" =>
            /\ pc = "metadata"
            /\ insts' = insts
            /\ FacetsCount(loc'.values, call.fieldID, Counted)
       /\ pc' = "blank" /\ pc # "blank" =>
            /\ pc = "values"
            /\ insts' = insts
            /\ loc'.values = WithBlankDocuments(loc.values)
       /\ pc' = "total" /\ pc # "total" => pc = "blank"
       /\ pc' = "done" /\ pc # "done" /\ ret'.err = "" =>
            /\ pc \in {"blank", "total"}
            /\ IsPermutation(ret'.values, loc.values)]_vars

\* a response over two documents whose facet of A counts 2 and whose blank
\* option counts 2: both documents held A when the value query ran, both
\* were cleared before the blank-count query ran, and each is counted twice
C17_Witness ==
    /\ Answered(FacetOps)
    /\ call.fieldID = 1
    /\ Cardinality(DocIds) = 2
    /\ \E i, j \in DOMAIN ret.values :
          /\ ret.values[i].label = <<"A">> /\ ret.values[i].count = 2
          /\ ret.values[j].id = sBlankId /\ ret.values[j].count = 2

(***************************** properties of the isnull leaf ****************)

\* the query is a leaf [f, "isnull", x]
IsIsNullLeaf(q) ==
    /\ q.t = "arr" /\ ~IsOperatorNode(q) /\ Len(q.a) >= 3
    /\ q.a[1].t = "num" /\ q.a[2] = JStr(sIsNull)

\* document d has a live instance of field f with a non-null, non-empty value
HasNonEmptyValue(d, f) == HasLiveValue(d, f) /\ insts[<<d, f>>].value # <<>>

\* the documents the blank-count query of field f counts when no filter is
\* given
BlankBucket(f) ==
    {k[1] : k \in Run(GetFieldValuesLocals(f, engine).blankQuery, docs, insts).rows}

\* C20: for a field f whose metadata lookup succeeds, the documents
\* satisfying the leaf [f, "isnull", x] are the documents without a live
\* instance of f holding a non-null, non-empty value, whatever x is; among
\* the documents that are not soft-deleted, which are the ones every
\* statement reads, they are the documents f's blank bucket counts
C20_IsNullIsBlank ==
    /\ Returned("buildCustomFieldConditions")
    /\ IsIsNullLeaf(call.query)
    /\ call.query.a[1].n \in FieldIds
    /\ call.query.a[1].n # call.fieldID
    => /\ ~ret.panic
       /\ Len(ret.conditions) = 1
       /\ ret.args = <<>>
       /\ \A d \in DOMAIN docs :
             AloneSelects(d, ret) <=> ~HasNonEmptyValue(d, call.query.a[1].n)
       /\ {d \in DOMAIN docs : ~docs[d].deleted /\ AloneSelects(d, ret)}
            = BlankBucket(call.query.a[1].n)

\* the leaf [1, "isnull", null] selects document 1, which has no instance
\* of field 1, document 3, whose instance is empty, and document 5, whose
\* instance is null, and it does not select document 2, which holds A
C20_Witness ==
    /\ Returned("buildCustomFieldConditions")
    /\ call.query = N1
    /\ call.fieldID = 2
    /\ insts[<<1, 1>>] = NoRow /\ AloneSelects(1, ret)
    /\ insts[<<3, 1>>] = LiveRow(<<>>) /\ AloneSelects(3, ret)
    /\ insts[<<5, 1>>] = NullRow /\ AloneSelects(5, ret)
    /\ insts[<<2, 1>>] = LiveRow(<<"A">>) /\ ~AloneSelects(2, ret)
    /\ {1, 3, 5} \subseteq BlankBucket(1)

====
